---- MODULE Spec2Model ----
(***************************************************************************)
(* wgen: the staged heightmap pipeline (WorldGenerator), its mask          *)
(* compositor, the generators it dispatches to, and the generator worker   *)
(* thread with the consumer (MyApp) that drives it through the             *)
(* WorldGenCommand / ThreadMessage channels.                               *)
(*                                                                         *)
(* Heights and weights are f32 in the program; here they are fixed-point   *)
(* integers with FP units per 1.0.  Vec indices are 0-based in the         *)
(* program and sequences 1-based here: cell `off` is h[off + 1], cache     *)
(* entry `index` is hmap[index + 1].                                       *)
(***************************************************************************)
EXTENDS Integers, Sequences, FiniteSets, TLC

VARIABLES
    wgen,      \* the worker's / the partially recomputed WorldGenerator
    steps,     \* generator_thread: the pending-units queue (Vec<InnerStep>)
    pc,        \* generator_thread: where the worker is in its loop
    cur,       \* generator_thread: the unit being executed (steps.remove(0))
    prog,      \* progress messages the running unit has still to report
    rx,        \* main -> generator channel (WorldGenCommand)
    tx,        \* generator -> main channel (ThreadMessage)
    gsteps,    \* MyApp.gen_panel.steps: the consumer's step list
    outbox,    \* commands the running consumer handler has still to send
    running,   \* MyApp.gen_panel.is_running
    edits,     \* number of consumer edits so far
    ticket,    \* history: serial number of the last ExecuteStep sent
    hist,      \* history: the last unit started, completed and received,
               \* the last completion sent since the worker left its wait
    live,      \* MyApp.panel_2d.live_preview
    before,    \* engine-level run: the edited index and the cache before it
    fresh,     \* a second WorldGenerator, created empty
    clock,     \* Instant::now(), in ticks
    mode,      \* engine-level run: "build" or "recompute"
    redo       \* engine-level run: the next index the caller executes

vars == <<wgen, steps, pc, cur, prog, rx, tx, gsteps, outbox, running,
          edits, ticket, hist, live, before, fresh, clock,
          mode, redo>>

\* the variables of the worker and of the consumer
livevars == <<steps, pc, cur, prog, rx, tx, outbox, running, ticket, hist, live>>

\* the variables only the engine-level runs change
engvars == <<before, fresh, clock, mode, redo>>

----------------------------------------------------------------------------
(* Numbers *)

\* f32 1.0 in fixed-point units
FP == 1024

\* main.rs: pub const MASK_SIZE: usize = 64
MASK_SIZE == 64

Min(a, b) == IF a < b THEN a ELSE b

Max(a, b) == IF a > b THEN a ELSE b

\* a * b and a / b on fixed-point values
FMul(a, b) == (a * b) \div FP

FDiv(a, b) == (a * FP) \div b

\* `x as usize` of a non-negative fixed-point value
AsUsize(x) == IF x <= 0 THEN 0 ELSE x \div FP

\* vec![0.0; n]
ZeroMap(n) == [i \in 1..n |-> 0]

----------------------------------------------------------------------------
(* rand::StdRng as the generators use it: a stream that is a function of   *)
(* the seed alone.                                                         *)

\* the modulus of the model's stream
RngMod == 16

\* a random source seeded from the wall clock instead of the engine seed
SeedFromClock(seed) == (seed + clock) % RngMod

\* StdRng::seed_from_u64(seed)
SeedFromU64(seed) == seed % RngMod

\* the stream's next state
RngNext(s) == (s * 5 + 3) % RngMod

\* rng.random_range(lo..hi) on f32: a value in [lo, hi) drawn from state s
RandomRange(s, lo, hi) == lo + ((hi - lo) * s) \div RngMod

----------------------------------------------------------------------------
(* generators/mod.rs *)

RECURSIVE MinMaxFrom(_, _, _, _)
MinMaxFrom(v, i, min, max) ==
    IF i > Len(v) THEN <<min, max>>
    ELSE IF v[i] > max THEN MinMaxFrom(v, i + 1, min, v[i])
    ELSE IF v[i] < min THEN MinMaxFrom(v, i + 1, v[i], max)
    ELSE MinMaxFrom(v, i + 1, min, max)

\* get_min_max(v): one scan, starting from v[0]
get_min_max(v) == MinMaxFrom(v, 2, v[1], v[1])

\* normalize that leaves a constant grid unchanged
normalize_keep_constant(v, target_min, target_max) ==
    LET mm == get_min_max(v)
        min == mm[1]
        max == mm[2]
    IN IF min = max THEN v
       ELSE [i \in 1..Len(v) |->
               target_min
               + FMul(v[i] - min, FDiv(target_max - target_min, max - min))]

\* normalize(v, target_min, target_max)
normalize(v, target_min, target_max) ==
    LET mm == get_min_max(v)
        min == mm[1]
        max == mm[2]
        invmax == IF min = max THEN 0
                  ELSE FDiv(target_max - target_min, max - min)
    IN [i \in 1..Len(v) |-> target_min + FMul(v[i] - min, invmax)]

\* gen_normalize(hmap, conf): reports no progress
gen_normalize(h, conf) == [h |-> normalize(h, conf.min, conf.max), sent |-> <<>>]

----------------------------------------------------------------------------
(* generators/hills.rs *)

\* one hill added to the map: the paraboloid inside its bounding box
AddHill(size, h, xh, yh, radius, height) ==
    LET radius2 == FMul(radius, radius)
        coef == FDiv(height, radius2)
        minx == AsUsize(Max(xh - radius, 0))
        maxx == AsUsize(Min(xh + radius, size[1] * FP))
        miny == AsUsize(Max(yh - radius, 0))
        maxy == AsUsize(Min(yh + radius, size[2] * FP))
    IN [i \in 1..Len(h) |->
          LET px == (i - 1) % size[1]
              py == (i - 1) \div size[1]
              xdist == FMul(px * FP - xh, px * FP - xh)
              ydist == FMul(py * FP - yh, py * FP - yh)
              z == radius2 - xdist - ydist
          IN IF px >= minx /\ px < maxx /\ py >= miny /\ py < maxy /\ z > 0
             THEN h[i] + FMul(z, coef)
             ELSE h[i]]

\* the radius and the centre drawn for one hill, and the random stream
\* after them
HillDraw(rng, size, conf) ==
    LET real_radius == (conf.base_radius * size[1]) \div 200
        hill_min_radius == FMul(real_radius, FP - conf.radius_var)
        hill_max_radius == FMul(real_radius, FP + conf.radius_var)
        fixed == conf.radius_var = 0
        r1 == IF fixed THEN rng ELSE RngNext(rng)
        r2 == RngNext(r1)
    IN [radius |-> IF fixed THEN hill_min_radius
                   ELSE RandomRange(rng, hill_min_radius, hill_max_radius),
        xh |-> RandomRange(r1, 0, size[1] * FP),
        yh |-> RandomRange(r2, 0, size[2] * FP),
        rng |-> RngNext(r2)]

RECURSIVE HillsLoop(_, _, _, _, _, _, _, _)
HillsLoop(i, rng, size, h, conf, progress, sent, min_progress_step) ==
    IF i >= conf.nb_hill THEN [h |-> h, sent |-> sent]
    ELSE
    LET d == HillDraw(rng, size, conf)
        h2 == AddHill(size, h, d.xh, d.yh, d.radius, conf.height)
        new_progress == (i * FP) \div conf.nb_hill
        report == new_progress - progress >= min_progress_step
    IN HillsLoop(i + 1, d.rng, size, h2, conf,
                 IF report THEN new_progress ELSE progress,
                 IF report THEN Append(sent, new_progress) ELSE sent,
                 min_progress_step)

\* gen_hills(seed, size, hmap, conf, export, tx, min_progress_step):
\* the map after the hills, and the progress fractions reported on the way
gen_hills(seed, size, h, conf, min_progress_step) ==
    HillsLoop(0, SeedFromU64(seed), size, h, conf, 0, <<>>, min_progress_step)

----------------------------------------------------------------------------
(* generators/mid_point.rs *)

\* (from..to).step_by(by)
StepBy(from, to, by) ==
    IF from >= to THEN <<>>
    ELSE [k \in 1..((to - from + by - 1) \div by) |-> from + (k - 1) * by]

\* the cell a step reads at (nx, ny): its height and 1, or nothing when the
\* code's bound tests fail
Neighbour(h, size, nx, ny) ==
    IF nx >= 0 /\ nx < size[1] /\ ny >= 0 /\ ny < size[2]
    THEN <<h[nx + ny * size[1] + 1], 1>>
    ELSE <<0, 0>>

\* square_step (diagonal neighbours) and diamond_step (orthogonal ones) at
\* (x, y), followed by track.count -= 1 and check_progress; st holds the
\* map, the random stream, the progress tracking, the progress fractions
\* sent and the cells written so far
MidPointStep(st, kind, x, y, size, reach, roughness) ==
    LET n1 == IF kind = "square"
              THEN Neighbour(st.h, size, x - reach, y - reach)
              ELSE Neighbour(st.h, size, x - reach, y)
        n2 == IF kind = "square"
              THEN Neighbour(st.h, size, x - reach, y + reach)
              ELSE Neighbour(st.h, size, x + reach, y)
        n3 == IF kind = "square"
              THEN Neighbour(st.h, size, x + reach, y - reach)
              ELSE Neighbour(st.h, size, x, y - reach)
        n4 == IF kind = "square"
              THEN Neighbour(st.h, size, x + reach, y + reach)
              ELSE Neighbour(st.h, size, x, y + reach)
        count == n1[2] + n2[2] + n3[2] + n4[2]
        avg == (n1[1] + n2[1] + n3[1] + n4[1]) \div count
               + RandomRange(st.rng, 0 - roughness, roughness)
        left == st.count - 1
        new_progress == FP - (left * FP) \div (size[1] * size[2] * 2)
        report == new_progress - st.progress >= st.min_progress_step
    IN [st EXCEPT !.h[x + y * size[1] + 1] = avg,
                  !.rng = RngNext(st.rng),
                  !.count = left,
                  !.progress = IF report THEN new_progress ELSE @,
                  !.sent = IF report THEN Append(@, new_progress) ELSE @,
                  !.written = @ \cup {<<x, y>>}]

\* the steps of a two-level loop, in order; x_outer tells which of the two
\* loop variables is x
RECURSIVE MidPointLoop(_, _, _, _, _, _, _, _, _, _)
MidPointLoop(st, kind, outer, inner, x_outer, i, j, size, reach, roughness) ==
    IF i > Len(outer) \/ inner = <<>> THEN st
    ELSE IF j > Len(inner)
    THEN MidPointLoop(st, kind, outer, inner, x_outer, i + 1, 1, size, reach,
                      roughness)
    ELSE LET next == MidPointStep(st, kind,
                                  IF x_outer THEN outer[i] ELSE inner[j],
                                  IF x_outer THEN inner[j] ELSE outer[i],
                                  size, reach, roughness)
         IN \* track.count is a usize: it never goes below 0
            IF next.count < 0 THEN next
            ELSE MidPointLoop(next, kind, outer, inner, x_outer, i, j + 1,
                              size, reach, roughness)

\* the diamond steps of one level: the columns x = 0, half, 2*half, ...,
\* the odd ones (col = 1, 3, ...) at y = half, half + cur_size, ..., the
\* even ones at y = 0, cur_size, ...
RECURSIVE DiamondColumns(_, _, _, _, _, _)
DiamondColumns(st, col, size, cur_size, half, roughness) ==
    LET xs == StepBy(0, size[1], half)
    IN IF col > Len(xs) THEN st
       ELSE DiamondColumns(
              MidPointLoop(st, "diamond", <<xs[col]>>,
                           IF col % 2 = 1
                           THEN StepBy(half, size[2], cur_size)
                           ELSE StepBy(0, size[2], cur_size),
                           TRUE, 1, 1, size, half, roughness),
              col + 1, size, cur_size, half, roughness)

\* diamond_square(hmap, rng, size, cur_size, roughness, track, tx): the
\* square steps (y outside, x inside), the diamond steps, then the next
\* level with half the size and half the roughness
RECURSIVE diamond_square(_, _, _, _)
diamond_square(st, size, cur_size, roughness) ==
    LET half == cur_size \div 2
    IN IF half < 1 THEN st
       ELSE LET sq == MidPointLoop(st, "square",
                                   StepBy(half, size[2], cur_size),
                                   StepBy(half, size[1], cur_size),
                                   FALSE, 1, 1, size, half, roughness)
            IN diamond_square(
                 DiamondColumns(sq, 1, size, cur_size, half, roughness),
                 size, cur_size \div 2, roughness \div 2)

\* the offsets (1-based) of the four corner cells, in the order gen_mid_point
\* writes them
CornerCells(size) ==
    << 1, size[1], size[1] * (size[2] - 1) + 1, size[1] * size[2] >>

\* the four corner heights gen_mid_point draws, in that order
CornerDraws(seed) ==
    LET r0 == SeedFromU64(seed)
        r1 == RngNext(r0)
        r2 == RngNext(r1)
        r3 == RngNext(r2)
    IN << RandomRange(r0, 0, FP), RandomRange(r1, 0, FP),
          RandomRange(r2, 0, FP), RandomRange(r3, 0, FP) >>

RECURSIVE SetCorners(_, _, _, _)
SetCorners(h, cells, draws, i) ==
    IF i > Len(cells) THEN h
    ELSE SetCorners([h EXCEPT ![cells[i]] = draws[i]], cells, draws, i + 1)

\* gen_mid_point(seed, size, hmap, conf, export, tx, min_progress_step): the
\* map, the progress fractions sent, and the cells the steps wrote
gen_mid_point(seed, size, h, conf, min_progress_step) ==
    diamond_square(
      [h |-> SetCorners(h, CornerCells(size), CornerDraws(seed), 1),
       rng |-> RngNext(RngNext(RngNext(RngNext(SeedFromU64(seed))))),
       count |-> size[1] * size[2] * 2,
       progress |-> 0,
       min_progress_step |-> min_progress_step,
       sent |-> <<>>,
       written |-> {}],
      size, size[1] \div 2, conf.roughness)

----------------------------------------------------------------------------
(* generators/landmass.rs *)

\* (h * 255.0) as usize, the histogram bucket of a height
Bucket(h) == AsUsize(h * 255)

\* height_count[b] after the first loop: the cells whose bucket is b
HeightCount(h, b) == Cardinality({c \in 1..Len(h) : Bucket(h[c]) = b})

\* the cells counted so far when the while loop tests water_level = wl
WaterCells(h, wl) == Cardinality({c \in 1..Len(h) : Bucket(h[c]) < wl})

\* the while loop: the first water_level at which it stops, that is 256 or
\* the first level with water_cells >= target_water_cells.  water_cells
\* only changes after a bucket that holds a cell, so the first such level
\* is 0 or one more than the bucket of a cell.
WaterLevel(h, target_water_cells) ==
    LET stops == {wl \in {0} \cup {Bucket(h[c]) + 1 : c \in 1..Len(h)} :
                    WaterCells(h, wl) * FP >= target_water_cells}
    IN IF stops = {} THEN 256
       ELSE CHOOSE wl \in stops : \A v \in stops : wl <= v

\* (size.0 * size.1) as f32 * (1.0 - conf.land_proportion)
TargetWaterCells(n, conf) == n * (FP - conf.land_proportion)

\* coef.powf(plain_factor), for a plain_factor that is a whole number
RECURSIVE Powf(_, _)
Powf(coef, factor) ==
    IF factor <= FP THEN coef ELSE FMul(coef, Powf(coef, factor - FP))

\* the three loops report progress after each row: the fractions sent
RECURSIVE LandProgress(_, _, _, _, _)
LandProgress(t, rows, progress, sent, min_progress_step) ==
    IF t >= 3 * rows THEN sent
    ELSE LET third == (33 * FP) \div 100
             base == CASE t \div rows = 0 -> 0
                       [] t \div rows = 1 -> third
                       [] t \div rows = 2 -> (66 * FP) \div 100
             new_progress == base + (third * (t % rows)) \div rows
             report == new_progress - progress >= min_progress_step
         IN LandProgress(t + 1, rows,
                         IF report THEN new_progress ELSE progress,
                         IF report THEN Append(sent, new_progress) ELSE sent,
                         min_progress_step)

\* the f32 that is not a number (0.0 / 0.0, 0.0 * infinity): a value apart
\* from every height
NaN == 0 - 1048576 * FP

\* gen_landmass(size, hmap, conf, export, tx, min_progress_step).  A
\* division by 0.0 gives an infinity or NaN, and every cell such a
\* coefficient is applied to ends as NaN.
gen_landmass(size, h, conf, min_progress_step) ==
    LET h1 == normalize(h, 0, FP)
        water_level == WaterLevel(h1, TargetWaterCells(Len(h), conf))
        new_water_level == (water_level * FP) \div 255
        \* second loop: the water level is moved to conf.water_level
        h2 == [c \in 1..Len(h) |->
                 IF h1[c] > new_water_level
                 THEN IF FP - new_water_level = 0 THEN NaN
                      ELSE conf.water_level
                           + FMul(h1[c] - new_water_level,
                                  FDiv(FP - conf.water_level,
                                       FP - new_water_level))
                 ELSE IF new_water_level = 0 THEN NaN
                      ELSE FMul(h1[c], FDiv(conf.water_level, new_water_level))
                           - conf.shore_height]
        \* third loop: h^plain_factor above the water level; a comparison
        \* with NaN is false
        h3 == [c \in 1..Len(h) |->
                 IF h2[c] = NaN THEN NaN
                 ELSE IF h2[c] >= conf.water_level
                 THEN IF FP - conf.water_level = 0 THEN NaN
                      ELSE conf.water_level
                           + FMul(Powf(FDiv(h2[c] - conf.water_level,
                                            FP - conf.water_level),
                                       conf.plain_factor),
                                  FP - conf.water_level)
                 ELSE h2[c]]
    IN [h |-> h3,
        sent |-> LandProgress(0, size[2], 0, <<>>, min_progress_step)]

----------------------------------------------------------------------------
(* generators/island.rs *)

\* one cell pulled towards the minimum: (h - min) * h_coef + min
IslandCell(h, off, min, h_coef) ==
    [h EXCEPT ![off + 1] = FMul(@ - min, h_coef) + min]

\* first loop, in order: for x in 0..size.0, for y in 0..coast_v_dist, the
\* cell (x, y) then the cell (x, size.1 - 1 - y)
RECURSIVE IslandRows(_, _, _, _, _, _)
IslandRows(h, k, size, coast_v_dist, rows, min) ==
    IF k >= size[1] * rows THEN h
    ELSE LET x == k \div rows
             y == k % rows
             h_coef == FDiv(y * FP, coast_v_dist)
         IN IslandRows(
              IslandCell(IslandCell(h, x + y * size[1], min, h_coef),
                         x + (size[2] - 1 - y) * size[1], min, h_coef),
              k + 1, size, coast_v_dist, rows, min)

\* second loop, in order: for y in 0..size.1, for x in 0..coast_h_dist, the
\* cell (x, y) then the cell (size.0 - 1 - x, y)
RECURSIVE IslandCols(_, _, _, _, _, _)
IslandCols(h, k, size, coast_h_dist, cols, min) ==
    IF k >= size[2] * cols THEN h
    ELSE LET y == k \div cols
             x == k % cols
             h_coef == FDiv(x * FP, coast_h_dist)
         IN IslandCols(
              IslandCell(IslandCell(h, x + y * size[1], min, h_coef),
                         (size[1] - 1 - x) + y * size[1], min, h_coef),
              k + 1, size, coast_h_dist, cols, min)

\* the progress fractions sent: after each x of the first loop
\* 0.5 * x / size.0, after each y of the second 0.5 + 0.5 * y / size.0
RECURSIVE IslandProgress(_, _, _, _, _)
IslandProgress(t, size, progress, sent, min_progress_step) ==
    IF t >= size[1] + size[2] THEN sent
    ELSE LET new_progress ==
               IF t < size[1]
               THEN ((FP \div 2) * t) \div size[1]
               ELSE FP \div 2 + ((FP \div 2) * (t - size[1])) \div size[1]
             report == new_progress - progress >= min_progress_step
         IN IslandProgress(t + 1, size,
                           IF report THEN new_progress ELSE progress,
                           IF report THEN Append(sent, new_progress) ELSE sent,
                           min_progress_step)

\* gen_island(size, hmap, conf, export, tx, min_progress_step), for a coast
\* range of at most 50 %
gen_island(size, h, conf, min_progress_step) ==
    LET coast_h_dist == (size[1] * conf.coast_range) \div 100
        coast_v_dist == (size[2] * conf.coast_range) \div 100
        min == get_min_max(h)[1]
        h1 == IslandRows(h, 0, size, coast_v_dist, AsUsize(coast_v_dist), min)
    IN [h |-> IslandCols(h1, 0, size, coast_h_dist, AsUsize(coast_h_dist), min),
        sent |-> IslandProgress(0, size, 0, <<>>, min_progress_step)]

----------------------------------------------------------------------------
(* generators/mudslide.rs *)

\* generators/mod.rs: DIRX, DIRY, the offsets of the 8 neighbours (entry 0,
\* the cell itself, is entry 1 here)
DIRX == <<0, -1, 0, 1, -1, 1, -1, 0, 1>>

DIRY == <<0, -1, -1, -1, 0, 0, 1, 1, 1>>

\* generators/mod.rs: vec_get_safe(v, off)
vec_get_safe(v, off) == IF off < Len(v) THEN v[off + 1] ELSE 0

\* mudslide: the neighbours i of (x, y) that are in the grid and lower than
\* h, diagonal ones (i = 1, 3, 6, 8) or adjacent ones
LowerNeighbours(size, hmap, x, y, h, diagonal) ==
    {i \in 1..8 :
       LET ix == x + DIRX[i + 1]
           iy == y + DIRY[i + 1]
       IN /\ (i \in {1, 3, 6, 8}) = diagonal
          \* a negative coordinate cast to usize is above every size
          /\ ix >= 0 /\ iy >= 0 /\ ix < size[1] /\ iy < size[2]
          /\ vec_get_safe(hmap, ix + iy * size[1]) < h}

\* mudslide: the sum of (ih - h) * weight over a set of neighbours
RECURSIVE SumDelta(_, _, _, _, _, _, _)
SumDelta(S, size, hmap, x, y, h, weight) ==
    IF S = {} THEN 0
    ELSE LET i == CHOOSE k \in S : TRUE
             ih == vec_get_safe(hmap, (x + DIRX[i + 1])
                                        + (y + DIRY[i + 1]) * size[1])
         IN FMul(ih - h, weight)
              + SumDelta(S \ {i}, size, hmap, x, y, h, weight)

\* mudslide: the height written for cell (x, y)
MudCell(size, hmap, conf, x, y) ==
    LET sand_coef == FDiv(FP, FP - conf.water_level)
        h == vec_get_safe(hmap, x + y * size[1])
        diag == LowerNeighbours(size, hmap, x, y, h, TRUE)
        adj == LowerNeighbours(size, hmap, x, y, h, FALSE)
        sum_delta1 == SumDelta(diag, size, hmap, x, y, h, (4 * FP) \div 10)
        sum_delta2 == SumDelta(adj, size, hmap, x, y, h, (16 * FP) \div 10)
        \* nb1 and nb2 start at 1.0
        nb1 == (1 + Cardinality(diag)) * FP
        nb2 == (1 + Cardinality(adj)) * FP
        dh == FMul(FDiv(sum_delta1, nb1) + FDiv(sum_delta2, nb2), conf.strength)
        hcoef == FMul(h - conf.water_level, sand_coef)
    IN IF h < conf.water_level - FP \div 100 \/ h >= conf.max_erosion_alt
       THEN h
       ELSE h + FMul(dh, FP - FMul(FMul(hcoef, hcoef), hcoef))

\* mudslide(size, hmap, conf): one pass, every cell computed from the map
\* as it is before the pass
mudslide(size, hmap, conf) ==
    [c \in 1..(size[1] * size[2]) |->
       MudCell(size, hmap, conf, (c - 1) % size[1], (c - 1) \div size[1])]

\* gen_mudslide(size, hmap, conf): `iterations as usize` passes; reports no
\* progress
RECURSIVE MudPasses(_, _, _, _)
MudPasses(n, size, hmap, conf) ==
    IF n = 0 THEN hmap
    ELSE MudPasses(n - 1, size, mudslide(size, hmap, conf), conf)

gen_mudslide(size, hmap, conf) ==
    [h |-> MudPasses(AsUsize(conf.iterations), size, hmap, conf),
     sent |-> <<>>]

----------------------------------------------------------------------------
(* worldgen.rs: Step, the masks, the engine *)

\* Step.mask: None
NoMask == "none"

\* the 64x64 masks the model draws from: all 1.0, all 0.0, and one that is
\* 1.0 on the left half and 0.0 on the right half
MaskNames == {"ones", "zeros", "left"}

\* mask[i] for a Some(mask)
MaskAt(mask, i) ==
    CASE mask = "ones" -> FP
      [] mask = "zeros" -> 0
      [] mask = "left" -> IF i % MASK_SIZE < MASK_SIZE \div 2 THEN FP ELSE 0

\* the bilinear weight apply_mask samples for world pixel (x, y)
MaskValue(world_size, mask, x, y) ==
    LET my == (y * MASK_SIZE) \div world_size[1]
        yalpha == (((y * MASK_SIZE) % world_size[1]) * FP) \div world_size[1]
        mx == (x * MASK_SIZE) \div world_size[1]
        xalpha == (((x * MASK_SIZE) % world_size[1]) * FP) \div world_size[1]
        top_left == MaskAt(mask, mx + my * MASK_SIZE)
        top == FMul(FP - xalpha, top_left)
               + FMul(xalpha, MaskAt(mask, mx + 1 + my * MASK_SIZE))
        bottom_mask == FMul(FP - xalpha, MaskAt(mask, mx + (my + 1) * MASK_SIZE))
                       + FMul(xalpha, MaskAt(mask, mx + 1 + (my + 1) * MASK_SIZE))
    IN IF mx + 1 < MASK_SIZE
       THEN IF my + 1 < MASK_SIZE
            THEN FMul(FP - yalpha, top) + FMul(yalpha, bottom_mask)
            ELSE top
       ELSE top_left

\* apply_mask with the two weights exchanged: mask_value on the baseline
apply_mask_inverted(world_size, mask, has_prev, prev, h) ==
    LET min == IF has_prev THEN 0 ELSE get_min_max(h)[1]
    IN [i \in 1..Len(h) |->
          LET x == (i - 1) % world_size[1]
              y == (i - 1) \div world_size[1]
              mask_value == MaskValue(world_size, mask, x, y)
          IN IF has_prev
             THEN FMul(mask_value, prev[i]) + FMul(FP - mask_value, h[i])
             ELSE FMul(mask_value, min) + FMul(FP - mask_value, h[i] - min)]

\* apply_mask(world_size, mask, prev, h); has_prev is prev.is_some()
apply_mask(world_size, mask, has_prev, prev, h) ==
    LET min == IF has_prev THEN 0 ELSE get_min_max(h)[1]
    IN [i \in 1..Len(h) |->
          LET x == (i - 1) % world_size[1]
              y == (i - 1) \div world_size[1]
              mask_value == MaskValue(world_size, mask, x, y)
          IN IF has_prev
             THEN FMul(FP - mask_value, prev[i]) + FMul(mask_value, h[i])
             ELSE FMul(FP - mask_value, min) + FMul(mask_value, h[i] - min)]

\* WorldGenerator::new(seed, world_size)
NewWorldGenerator(seed, world_size) ==
    [seed |-> seed, world_size |-> world_size, hmap |-> <<>>]

\* WorldGenerator::clear
clear(w) == NewWorldGenerator(w.seed, w.world_size)

\* get_step_export_map that answers an index past the end with the last
\* entry
get_step_export_map_clamped(w, step) ==
    [size |-> w.world_size,
     h |-> IF w.hmap = <<>>
           THEN ZeroMap(w.world_size[1] * w.world_size[2])
           ELSE w.hmap[Min(step + 1, Len(w.hmap))].h]

\* WorldGenerator::get_step_export_map(step)
get_step_export_map(w, step) ==
    [size |-> w.world_size,
     h |-> IF step >= Len(w.hmap)
           THEN ZeroMap(w.world_size[1] * w.world_size[2])
           ELSE w.hmap[step + 1].h]

\* WorldGenerator::get_export_map
get_export_map(w) ==
    get_step_export_map(w, IF w.hmap = <<>> THEN 0 ELSE Len(w.hmap) - 1)

\* execute_step that leaves the old map of entry `index` in place when it
\* overwrites (no copy of entry index-1, no fill)
PrepareEntryStale(w, index) ==
    IF index >= Len(w.hmap)
    THEN Append(w.hmap,
                [h |-> IF Len(w.hmap) = 0
                       THEN ZeroMap(w.world_size[1] * w.world_size[2])
                       ELSE w.hmap[Len(w.hmap)].h,
                 disabled |-> FALSE])
    ELSE w.hmap

\* execute_step, first part: the cache with entry `index` holding the base map
PrepareEntry(w, index) ==
    LET len == Len(w.hmap)
    IN IF index >= len
       THEN Append(w.hmap,
                   [h |-> IF len = 0
                          THEN ZeroMap(w.world_size[1] * w.world_size[2])
                          ELSE w.hmap[len].h,
                    disabled |-> FALSE])
       ELSE IF index > 0
       THEN [w.hmap EXCEPT ![index + 1].h = w.hmap[index].h]
       ELSE [w.hmap EXCEPT ![index + 1].h =
                 ZeroMap(w.world_size[1] * w.world_size[2])]

\* execute_step indexes self.hmap[index] after the push: out of range, and
\* the thread panics, when index is past the end of the cache
ExecuteStepPanics(w, index) == index > Len(w.hmap)

\* execute_step, the match on the step's variant: the generator it calls
Dispatch(seed, world_size, h, step, min_progress_step) ==
    CASE step.typ = "Hills" ->
           gen_hills(seed, world_size, h, step.conf, min_progress_step)
      [] step.typ = "Normalize" -> gen_normalize(h, step.conf)
      [] step.typ = "MidPoint" ->
           gen_mid_point(seed, world_size, h, step.conf, min_progress_step)
      [] step.typ = "LandMass" ->
           gen_landmass(world_size, h, step.conf, min_progress_step)
      [] step.typ = "MudSlide" -> gen_mudslide(world_size, h, step.conf)
      [] step.typ = "Island" ->
           gen_island(world_size, h, step.conf, min_progress_step)

\* the dispatch without the test of the disabled flag
GenerateAlways(seed, world_size, h, step, min_progress_step) ==
    Dispatch(seed, world_size, h, step, min_progress_step)

\* execute_step, second part: the generator the step's variant selects,
\* skipped when the step is disabled
Generate(seed, world_size, h, step, min_progress_step) ==
    IF step.disabled THEN [h |-> h, sent |-> <<>>]
    ELSE Dispatch(seed, world_size, h, step, min_progress_step)

\* WorldGenerator::execute_step(index, step, export, tx, min_progress_step),
\* for an index that does not panic: the engine afterwards, and the
\* progress fractions sent on the way
execute_step(w, index, step, min_progress_step) ==
    LET hmap1 == PrepareEntry(w, index)
        g == Generate(w.seed, w.world_size, hmap1[index + 1].h, step,
                      min_progress_step)
        h2 == IF step.mask = NoMask THEN g.h
              ELSE IF index > 0
              THEN apply_mask(w.world_size, step.mask, TRUE, hmap1[index].h, g.h)
              ELSE apply_mask(w.world_size, step.mask, FALSE, <<>>, g.h)
    IN [wgen |-> [w EXCEPT !.hmap = [hmap1 EXCEPT ![index + 1].h = h2]],
        sent |-> g.sent]

----------------------------------------------------------------------------
(* The inputs the model draws from *)

\* the engines the model creates: seed and live world size (size x size)
Worlds == { [seed |-> 3, size |-> 2], [seed |-> 6, size |-> 3] }

\* longest step list
MaxSteps == 2

\* most edits of the step list in one run of the worker
MaxEdits == 3

HillsA == [nb_hill |-> 2, base_radius |-> 200 * FP, radius_var |-> 0,
           height |-> FP]

HillsB == [nb_hill |-> 1, base_radius |-> 255 * FP, radius_var |-> FP \div 2,
           height |-> FP \div 2]

NormalizeA == [min |-> 0, max |-> FP]

NormalizeB == [min |-> FP \div 2, max |-> 2 * FP]

\* a Step: variant with its configuration, disabled flag, optional mask
MkStep(typ, conf, disabled, mask) ==
    [typ |-> typ, conf |-> conf, disabled |-> disabled, mask |-> mask]

\* the Steps the model draws
StepSet ==
    { MkStep("Hills", HillsA, FALSE, NoMask),
      MkStep("Hills", HillsB, FALSE, "ones"),
      MkStep("Normalize", NormalizeA, FALSE, NoMask),
      MkStep("Normalize", NormalizeB, FALSE, "ones"),
      MkStep("Hills", HillsA, FALSE, "left"),
      MkStep("Normalize", NormalizeB, FALSE, "zeros"),
      MkStep("Hills", HillsB, TRUE, NoMask),
      MkStep("Normalize", NormalizeA, TRUE, "left") }

\* step lists of length 1..n over S
RECURSIVE ListsUpTo(_, _)
ListsUpTo(S, n) ==
    IF n = 0 THEN {}
    ELSE LET shorter == ListsUpTo(S, n - 1)
         IN {<<x>> : x \in S} \cup shorter
            \cup {Append(l, x) : l \in {k \in shorter : Len(k) = n - 1}, x \in S}

\* PanelGenerator::enabled_steps
enabled_steps(list) == Cardinality({i \in 1..Len(list) : ~list[i].disabled})

\* 0.01 * enabled_steps, the min_progress_step regen and export pass on
MinProgressStep(list) == (enabled_steps(list) * FP) \div 100

\* the state of the worker and consumer variables while only engines run
WorkerAtRest ==
    /\ steps = <<>> /\ pc = "idle" /\ cur = <<>> /\ prog = <<>>
    /\ rx = <<>> /\ tx = <<>> /\ outbox = <<>> /\ running = FALSE
    /\ ticket = 0 /\ hist = <<>> /\ live = FALSE

----------------------------------------------------------------------------
(* Engine-level runs: a caller executes its step list on one engine, edits *)
(* a step and re-executes from the edited index on, while a second engine  *)
(* executes the same list from an empty cache.                             *)

EngInit ==
    /\ WorkerAtRest
    /\ \E w \in Worlds :
         /\ wgen = NewWorldGenerator(w.seed, <<w.size, w.size>>)
         /\ fresh = NewWorldGenerator(w.seed, <<w.size, w.size>>)
    /\ gsteps \in ListsUpTo(StepSet, MaxSteps)
    /\ edits = 0 /\ clock = 0 /\ mode = "build" /\ redo = 0 /\ before = <<>>

\* the caller executes the next step of its list on the engine
EngExecute ==
    /\ redo < Len(gsteps)
    /\ wgen' = execute_step(wgen, redo, gsteps[redo + 1],
                            MinProgressStep(gsteps)).wgen
    /\ redo' = redo + 1
    /\ clock' = clock + 1
    /\ UNCHANGED <<livevars, gsteps, edits, before, fresh, mode>>

\* the second engine executes the next step of the same list
FreshExecute ==
    /\ mode = "build" \/ redo = Len(gsteps)
    /\ Len(fresh.hmap) < Len(gsteps)
    /\ fresh' = execute_step(fresh, Len(fresh.hmap),
                             gsteps[Len(fresh.hmap) + 1],
                             MinProgressStep(gsteps)).wgen
    /\ clock' = clock + 1
    /\ UNCHANGED <<livevars, wgen, gsteps, edits, before, mode, redo>>

\* step k of a fully executed list is replaced: the caller will re-execute
\* k..end, and the second engine starts again from an empty cache
EngEdit ==
    /\ mode = "build"
    /\ redo = Len(gsteps)
    /\ \E k \in 0..(Len(gsteps) - 1), st \in StepSet :
         /\ gsteps' = [gsteps EXCEPT ![k + 1] = st]
         /\ redo' = k
         /\ before' = <<k, wgen.hmap>>
    /\ fresh' = clear(fresh)
    /\ mode' = "recompute"
    /\ edits' = edits + 1
    /\ UNCHANGED <<livevars, wgen, clock>>

EngNext == EngExecute \/ FreshExecute \/ EngEdit

EngineSpec == EngInit /\ [][EngNext]_vars

----------------------------------------------------------------------------
(* Engine-level properties *)

\* both engines have executed every step of the caller's list
BothComplete ==
    /\ redo = Len(gsteps)
    /\ Len(fresh.hmap) = Len(gsteps)

\* C1: partial-recompute equivalence.  After step k was replaced and the
\* caller re-executed k..end in ascending order on the engine that holds the
\* cache of the old list, every cache entry equals the entry of an engine
\* that executed the edited list from an empty cache.
C1_PartialRecompute ==
    (mode = "recompute" /\ BothComplete) => wgen.hmap = fresh.hmap

\* C1 witness: an edit at an index k >= 1 was recomputed, it changed the
\* cache, and the result is not a flat map
C1_Witness ==
    /\ mode = "recompute" /\ BothComplete
    /\ before[1] >= 1
    /\ before[2] # wgen.hmap
    /\ \E i \in 1..Len(wgen.hmap[Len(wgen.hmap)].h) :
         wgen.hmap[Len(wgen.hmap)].h[i] # wgen.hmap[Len(wgen.hmap)].h[1]

Prefix(w, n) == [w EXCEPT !.hmap = SubSeq(w.hmap, 1, n)]

\* C10: a mask of all 1.0 is a full pass-through.  Every cache entry that
\* was computed from a step with an all-1.0 mask equals the entry the same
\* step computes with no mask, at every index, index 0 included.
C10_MaskOnesPassThrough ==
    \A i \in 1..Min(redo, Len(wgen.hmap)) :
      gsteps[i].mask = "ones" =>
        wgen.hmap[i].h =
          execute_step(Prefix(wgen, i - 1), i - 1,
                       [gsteps[i] EXCEPT !.mask = NoMask],
                       MinProgressStep(gsteps)).wgen.hmap[i].h

\* the same at the indices that have a previous entry
MaskOnesPassThroughAfterFirst ==
    \A i \in 2..Min(redo, Len(wgen.hmap)) :
      gsteps[i].mask = "ones" =>
        wgen.hmap[i].h =
          execute_step(Prefix(wgen, i - 1), i - 1,
                       [gsteps[i] EXCEPT !.mask = NoMask],
                       MinProgressStep(gsteps)).wgen.hmap[i].h

----------------------------------------------------------------------------
(* worldgen.rs: the commands and the worker thread *)

\* Abort that keeps the unit at the head of the queue
do_abort_keep_head(st) == IF st = <<>> THEN <<>> ELSE <<Head(st)>>

\* do_command, WorldGenCommand::Abort: steps.clear()
do_abort(st) == <<>>

\* Vec::remove(index)
RemoveAt(v, index) ==
    [i \in 1..(Len(v) - 1) |-> IF i <= index THEN v[i] ELSE v[i + 1]]

\* SetSize that keeps the cache
do_set_size_keep_cache(w, size) == [w EXCEPT !.world_size = <<size, size>>]

\* do_command, WorldGenCommand::SetSize: a new engine with the old seed
do_set_size(w, size) == NewWorldGenerator(w.seed, <<size, size>>)

\* DeleteStep that removes the last entry
do_delete_last(w, index) ==
    [w EXCEPT !.hmap = SubSeq(w.hmap, 1, Len(w.hmap) - 1)]

\* do_command, WorldGenCommand::DeleteStep: wgen.hmap.remove(index)
do_delete_step(w, index) == [w EXCEPT !.hmap = RemoveAt(w.hmap, index)]

\* do_command panics: DeleteStep, DisableStep and EnableStep index the cache
\* without a check
do_command_panics(msg, w) ==
    /\ msg.cmd \in {"DeleteStep", "DisableStep", "EnableStep"}
    /\ msg.index >= Len(w.hmap)

\* do_command(msg, wgen, steps, tx) for a command that does not panic: the
\* engine and the pending units afterwards, and the messages sent
do_command(msg, w, st) ==
    CASE msg.cmd = "Clear" ->
           [wgen |-> clear(w), steps |-> st, send |-> <<>>]
      [] msg.cmd = "SetSeed" ->
           [wgen |-> [w EXCEPT !.seed = msg.seed], steps |-> st, send |-> <<>>]
      [] msg.cmd = "ExecuteStep" ->
           [wgen |-> w,
            steps |-> Append(st, [index |-> msg.index, step |-> msg.step,
                                  live |-> msg.live,
                                  min_progress_step |-> msg.min_progress_step,
                                  id |-> msg.id]),
            send |-> <<>>]
      [] msg.cmd = "DeleteStep" ->
           [wgen |-> do_delete_step(w, msg.index),
            steps |-> st, send |-> <<>>]
      [] msg.cmd = "DisableStep" ->
           [wgen |-> [w EXCEPT !.hmap[msg.index + 1].disabled = TRUE],
            steps |-> st, send |-> <<>>]
      [] msg.cmd = "EnableStep" ->
           [wgen |-> [w EXCEPT !.hmap[msg.index + 1].disabled = FALSE],
            steps |-> st, send |-> <<>>]
      [] msg.cmd = "GetStepMap" ->
           [wgen |-> w, steps |-> st,
            send |-> << [type |-> "GeneratorStepMap", index |-> msg.index,
                         map |-> get_step_export_map(w, msg.index)] >>]
      [] msg.cmd = "Abort" ->
           [wgen |-> w, steps |-> do_abort(st), send |-> <<>>]
      [] msg.cmd = "SetSize" ->
           [wgen |-> do_set_size(w, msg.size),
            steps |-> st, send |-> <<>>]

\* the worker goes back to waiting after every unit
LoopTopAlwaysWaits(st) == "idle"

\* generator_thread, top of the loop: the blocking recv only when no unit is
\* pending, else straight to the try_recv loop
LoopTop(st) == IF st = <<>> THEN "idle" ELSE "drain"

\* a worker that runs its pending units back to back
CanStartUnitUndrained(q, st) == st # <<>>

\* generator_thread: a unit is taken once try_recv finds the channel empty
\* and a unit is pending
CanStartUnit(q, st) == q = <<>> /\ st # <<>>

\* a worker that takes the newest unit
TakeLastUnit(st) ==
    [unit |-> st[Len(st)], rest |-> SubSeq(st, 1, Len(st) - 1)]

\* generator_thread: steps.remove(0)
TakeUnit(st) == [unit |-> Head(st), rest |-> Tail(st)]

\* a generator whose progress reports are not awaited
CanFinishUnitEarly(p) == TRUE

\* execute_step returns once the generator has made all its reports
CanFinishUnit(p) == p = <<>>

\* report_progress(progress, export, tx): the message sent
report_progress(progress, export, id) ==
    [type |-> IF export THEN "ExporterStepProgress"
              ELSE "GeneratorStepProgress",
     progress |-> progress, id |-> id]

\* Done and StepDone swapped
CompletionMessageSwapped(w, st, unit) ==
    IF st # <<>>
    THEN [type |-> "GeneratorDone", map |-> get_export_map(w), id |-> unit.id]
    ELSE [type |-> "GeneratorStepDone", index |-> unit.index,
          map |-> IF unit.live THEN <<get_step_export_map(w, unit.index)>>
                  ELSE <<>>,
          id |-> unit.id]

\* generator_thread: the message sent after a unit, given the engine and the
\* pending units at that point
CompletionMessage(w, st, unit) ==
    IF st = <<>>
    THEN [type |-> "GeneratorDone", map |-> get_export_map(w), id |-> unit.id]
    ELSE [type |-> "GeneratorStepDone", index |-> unit.index,
          map |-> IF unit.live THEN <<get_step_export_map(w, unit.index)>>
                  ELSE <<>>,
          id |-> unit.id]

\* do_command on the command at the head of the channel
ApplyHead ==
    /\ rx # <<>>
    /\ rx' = Tail(rx)
    /\ IF do_command_panics(Head(rx), wgen)
       THEN /\ pc' = "panicked"
            /\ UNCHANGED <<wgen, steps, tx>>
       ELSE LET r == do_command(Head(rx), wgen, steps)
            IN /\ wgen' = r.wgen
               /\ steps' = r.steps
               /\ tx' = tx \o r.send
               /\ pc' = "drain"
    /\ hist' = [hist EXCEPT !.discarded =
                   @ \/ (Head(rx).cmd = "Abort" /\ steps # <<>>),
                            !.last = IF pc = "idle" THEN "none" ELSE @]
    /\ UNCHANGED <<cur, prog, gsteps, outbox, running, edits, ticket, live,
                   engvars>>

\* the blocking rx.recv() returns a command, which is applied
WorkerRecv == pc = "idle" /\ ApplyHead

\* rx.try_recv() returns a command, which is applied
WorkerTryRecv == pc = "drain" /\ ApplyHead

\* try_recv finds the channel empty and no unit is pending: back to the top
\* of the loop
WorkerDrained ==
    /\ pc = "drain"
    /\ rx = <<>>
    /\ steps = <<>>
    /\ pc' = LoopTop(steps)
    /\ UNCHANGED <<wgen, steps, cur, prog, rx, tx, gsteps, outbox, running,
                   edits, ticket, hist, live, engvars>>

\* try_recv finds the channel empty and a unit is pending: the unit is taken
\* and execute_step is entered
WorkerStartUnit ==
    /\ pc = "drain"
    /\ CanStartUnit(rx, steps)
    /\ LET t == TakeUnit(steps)
       IN /\ cur' = t.unit
          /\ steps' = t.rest
          /\ hist' = [hist EXCEPT !.started = t.unit.id]
          /\ IF ExecuteStepPanics(wgen, t.unit.index)
             THEN pc' = "panicked" /\ prog' = <<>>
             ELSE /\ pc' = "exec"
                  /\ prog' = execute_step(wgen, t.unit.index, t.unit.step,
                                          t.unit.min_progress_step).sent
    /\ UNCHANGED <<wgen, rx, tx, gsteps, outbox, running, edits, ticket,
                   live, engvars>>

\* the running generator reports progress
WorkerProgress ==
    /\ prog # <<>>
    /\ tx' = Append(tx, report_progress(Head(prog), FALSE, cur.id))
    /\ prog' = Tail(prog)
    /\ UNCHANGED <<wgen, steps, pc, cur, rx, gsteps, outbox, running, edits,
                   ticket, hist, live, engvars>>

\* execute_step returns: the cache holds the unit's result, and Done or
\* StepDone is sent
WorkerFinishUnit ==
    /\ pc = "exec"
    /\ CanFinishUnit(prog)
    /\ LET w2 == execute_step(wgen, cur.index, cur.step,
                              cur.min_progress_step).wgen
       IN /\ wgen' = w2
          /\ tx' = Append(tx, CompletionMessage(w2, steps, cur))
    /\ pc' = LoopTop(steps)
    /\ hist' = [hist EXCEPT !.overtaken =
                   @ \/ \E i \in 1..Len(rx) : rx[i].cmd = "Abort",
                            !.last = CompletionMessage(wgen, steps, cur).type]
    /\ UNCHANGED <<steps, cur, prog, rx, gsteps, outbox, running, edits,
                   ticket, live, engvars>>

----------------------------------------------------------------------------
(* main.rs, panel_generator.rs: the consumer *)

\* the engine generator_thread is started with
LiveWorld == [seed |-> 3, size |-> 2]

\* the Steps the user adds and edits in
UiSteps ==
    { MkStep("Hills", HillsA, FALSE, NoMask),
      MkStep("Normalize", NormalizeB, FALSE, "ones") }

\* MyApp::regen(must_delete, from_idx): the commands it sends, in order; the
\* ExecuteStep commands are numbered after `tk`
regen(must_delete, from_idx, list, lv, tk) ==
    LET len == Len(list)
        first == Min(from_idx, len - 1)
    IN << [cmd |-> "Abort", from_idx |-> from_idx] >>
       \o (IF must_delete
           THEN << [cmd |-> "DeleteStep", index |-> from_idx] >>
           ELSE <<>>)
       \o (IF len = 0 THEN <<>>
           ELSE [j \in 1..(len - first) |->
                   [cmd |-> "ExecuteStep", index |-> first + j - 1,
                    step |-> list[first + j], live |-> lv,
                    min_progress_step |-> MinProgressStep(list),
                    id |-> tk + j]])

\* the number of ExecuteStep commands regen sends
RegenUnits(from_idx, list) ==
    IF Len(list) = 0 THEN 0 ELSE Len(list) - Min(from_idx, Len(list) - 1)

\* a consumer handler that changed the list to `list` and calls regen
CallRegen(must_delete, from_idx, list) ==
    /\ gsteps' = list
    /\ outbox' = regen(must_delete, from_idx, list, live, ticket)
    /\ ticket' = ticket + RegenUnits(from_idx, list)
    /\ running' = IF Len(list) = 0 THEN running ELSE TRUE
    /\ edits' = edits + 1
    /\ UNCHANGED <<wgen, steps, pc, cur, prog, rx, tx, hist, live, engvars>>

\* the UI handles one action at a time, and the worker's channel is open
ConsumerReady ==
    /\ outbox = <<>>
    /\ edits < MaxEdits
    /\ pc # "panicked"

\* "New step": the step is appended, regen(false, len - 1)
ConsumerNewStep ==
    /\ ConsumerReady
    /\ Len(gsteps) < MaxSteps
    /\ \E st \in UiSteps :
         CallRegen(FALSE, Len(gsteps), Append(gsteps, st))

\* the configuration of step k is edited and "Refresh" clicked:
\* regen(false, k)
ConsumerRefresh ==
    /\ ConsumerReady
    /\ \E k \in 0..(Len(gsteps) - 1), st \in UiSteps :
         CallRegen(FALSE, k, [gsteps EXCEPT ![k + 1] = st])

\* step k is deleted: steps.remove(k), regen(true, k)
ConsumerRemove ==
    /\ ConsumerReady
    /\ \E k \in 0..(Len(gsteps) - 1) :
         CallRegen(TRUE, k, RemoveAt(gsteps, k))

\* "Clear": steps.clear(), regen(false, 0)
ConsumerClear ==
    /\ ConsumerReady
    /\ CallRegen(FALSE, 0, <<>>)

\* main2wgen_tx.send(command): the next command of the running handler
ConsumerSend ==
    /\ outbox # <<>>
    /\ pc # "panicked"
    /\ rx' = Append(rx, Head(outbox))
    /\ outbox' = Tail(outbox)
    /\ UNCHANGED <<wgen, steps, pc, cur, prog, tx, gsteps, running, edits,
                   ticket, hist, live, engvars>>

\* MyApp::handle_threads_messages: one message is taken from the channel
ConsumerRecv ==
    /\ outbox = <<>>
    /\ tx # <<>>
    /\ tx' = Tail(tx)
    /\ running' = IF Head(tx).type = "GeneratorDone" THEN FALSE ELSE running
    /\ hist' = [hist EXCEPT !.recv =
                   IF Head(tx).type \in {"GeneratorDone", "GeneratorStepDone"}
                   THEN Head(tx).id ELSE @]
    /\ UNCHANGED <<wgen, steps, pc, cur, prog, rx, gsteps, outbox, edits,
                   ticket, live, engvars>>

----------------------------------------------------------------------------
(* The worker thread and the consumer *)

Init ==
    /\ wgen = NewWorldGenerator(LiveWorld.seed, <<LiveWorld.size, LiveWorld.size>>)
    /\ fresh = wgen
    /\ live \in BOOLEAN
    /\ gsteps = <<>> /\ outbox = <<>> /\ running = FALSE
    /\ steps = <<>> /\ pc = "idle" /\ cur = <<>> /\ prog = <<>>
    /\ rx = <<>> /\ tx = <<>>
    /\ edits = 0 /\ ticket = 0
    /\ hist = [started |-> 0, recv |-> 0, overtaken |-> FALSE,
               discarded |-> FALSE, last |-> "none"]
    /\ before = <<>> /\ clock = 0 /\ mode = "live" /\ redo = 0

Next ==
    \/ WorkerRecv
    \/ WorkerTryRecv
    \/ WorkerDrained
    \/ WorkerStartUnit
    \/ WorkerProgress
    \/ WorkerFinishUnit
    \/ ConsumerNewStep
    \/ ConsumerRefresh
    \/ ConsumerRemove
    \/ ConsumerClear
    \/ ConsumerSend
    \/ ConsumerRecv

Spec == Init /\ [][Next]_vars

----------------------------------------------------------------------------
(* Properties of the worker and the consumer protocol *)

RECURSIVE generate_from(_, _, _)
generate_from(w, list, i) ==
    IF i >= Len(list) THEN w
    ELSE generate_from(execute_step(w, i, list[i + 1],
                                    MinProgressStep(list)).wgen,
                       list, i + 1)

\* WorldGenerator::generate(steps): clear, then every step in order
generate(w, list) == generate_from(clear(w), list, 0)

\* the worker is blocked in recv, nothing is queued, in flight or unsent
Quiescent ==
    /\ pc = "idle" /\ rx = <<>> /\ steps = <<>> /\ outbox = <<>>

\* C2: stage-cache invariant at quiescence.  Whenever the worker is blocked
\* idle with nothing queued, the cache has one entry per step of the
\* consumer's list and entry i is what running that list from an empty
\* cache gives at step i.
C2_CacheAtQuiescence ==
    Quiescent =>
      /\ Len(wgen.hmap) = Len(gsteps)
      /\ \A i \in 1..Len(gsteps) :
           wgen.hmap[i].h = generate(wgen, gsteps).hmap[i].h

IsCompletion(m) == m.type \in {"GeneratorDone", "GeneratorStepDone"}

\* the worker applies the command at the head of the channel in this step
Applies(c) == rx # <<>> /\ rx' = Tail(rx) /\ Head(rx).cmd = c

\* the running unit ends in this step
UnitEnds == pc = "exec" /\ pc' # "exec"

\* C3: Abort only discards not-yet-started units.  Applying Abort empties
\* the pending queue and changes nothing else, it is applied only between
\* units, and a unit that is running when Abort is sent is not touched: its
\* result is stored at its index and its completion message is sent.
C3_AbortStep ==
    /\ Applies("Abort") =>
         /\ pc \in {"idle", "drain"}
         /\ steps' = <<>>
         /\ wgen' = wgen /\ tx' = tx
    /\ pc = "exec" =>
         /\ steps' = steps
         /\ ~(rx # <<>> /\ rx' = Tail(rx))
    /\ UnitEnds =>
         /\ pc' \in {"idle", "drain"}
         /\ wgen'.hmap[cur.index + 1].h =
              execute_step(wgen, cur.index, cur.step,
                           cur.min_progress_step).wgen.hmap[cur.index + 1].h
         /\ Len(tx') = Len(tx) + 1
         /\ IsCompletion(tx'[Len(tx')])
         /\ tx'[Len(tx')].id = cur.id

C3_AbortOnlyDiscardsPending == [][C3_AbortStep]_vars

\* C3 witness: a unit ended while an Abort was waiting in the channel, an
\* Abort discarded pending units, and the worker is idle again
C3_Witness ==
    /\ hist.overtaken /\ hist.discarded
    /\ pc = "idle" /\ rx = <<>>
    /\ wgen.hmap # <<>>

\* the ids of the units in a sequence of units or of commands
RECURSIVE UnitIds(_)
UnitIds(q) ==
    IF q = <<>> THEN <<>>
    ELSE IF "id" \in DOMAIN Head(q) /\ (("cmd" \in DOMAIN Head(q)) =>
                                         Head(q).cmd = "ExecuteStep")
    THEN <<Head(q).id>> \o UnitIds(Tail(q))
    ELSE UnitIds(Tail(q))

\* the ids of the completion messages in a sequence of messages
RECURSIVE CompletionIds(_)
CompletionIds(q) ==
    IF q = <<>> THEN <<>>
    ELSE IF IsCompletion(Head(q))
    THEN <<Head(q).id>> \o CompletionIds(Tail(q))
    ELSE CompletionIds(Tail(q))

StrictlyIncreasing(q) == \A i \in 1..(Len(q) - 1) : q[i] < q[i + 1]

\* C4: results are reported in the order the stages were enqueued.  The
\* units not yet executed are, from the worker's queue back to the
\* consumer, in the order their ExecuteStep commands were sent and all
\* newer than the last unit started (so no unit is executed twice or out of
\* order), and the completion messages travel to the consumer in that same
\* order.
C4_FifoOrder ==
    /\ StrictlyIncreasing(<<hist.started>> \o UnitIds(steps) \o UnitIds(rx)
                          \o UnitIds(outbox))
    /\ StrictlyIncreasing(<<hist.recv>> \o CompletionIds(tx))
    /\ \A i \in 1..Len(tx) : IsCompletion(tx[i]) => tx[i].id <= hist.started
    /\ pc = "exec" =>
         /\ cur.id = hist.started
         /\ \A i \in 1..Len(tx) : IsCompletion(tx[i]) => tx[i].id < cur.id
         /\ hist.recv < cur.id

\* C4 witness: two completion messages are on their way while a third unit
\* runs and another is pending
C4_Witness ==
    /\ Len(CompletionIds(tx)) >= 2
    /\ pc = "exec"
    /\ rx # <<>>

\* C5: progress messages of a unit precede its completion message.  Every
\* StepProgress message on the channel comes after the completion messages
\* of earlier units, before any completion message of its own or a later
\* unit, and its own completion message has not been received yet.
C5_ProgressBeforeCompletion ==
    \A p \in 1..Len(tx) :
      tx[p].type = "GeneratorStepProgress" =>
        /\ hist.recv < tx[p].id
        /\ tx[p].id <= hist.started
        /\ \A q \in 1..Len(tx) :
             IsCompletion(tx[q]) =>
               /\ q < p => tx[q].id < tx[p].id
               /\ q > p => tx[q].id >= tx[p].id

\* C5 witness: on the channel, a completion message of an earlier unit, then
\* a progress message, then the completion message of the unit it is from
C5_Witness ==
    \E p \in 2..(Len(tx) - 1) :
      /\ tx[p].type = "GeneratorStepProgress"
      /\ IsCompletion(tx[p - 1]) /\ tx[p - 1].id < tx[p].id
      /\ IsCompletion(tx[p + 1]) /\ tx[p + 1].id = tx[p].id

\* C6: after a unit the worker sends exactly one completion message:
\* GeneratorDone with a copy of the last cache entry's map when no unit is
\* pending, else GeneratorStepDone with the unit's index and, under live
\* preview, a copy of its map; so GeneratorDone is never sent while a unit
\* is pending.
C6_CompletionStep ==
    /\ UnitEnds =>
         /\ Len(tx') = Len(tx) + 1
         /\ SubSeq(tx', 1, Len(tx)) = tx
         /\ LET m == tx'[Len(tx')]
            IN IF steps' = <<>>
               THEN /\ m.type = "GeneratorDone"
                    /\ m.map = [size |-> wgen'.world_size,
                                h |-> wgen'.hmap[Len(wgen'.hmap)].h]
               ELSE /\ m.type = "GeneratorStepDone"
                    /\ m.index = cur.index
                    /\ m.map = IF cur.live
                               THEN << [size |-> wgen'.world_size,
                                        h |-> wgen'.hmap[cur.index + 1].h] >>
                               ELSE <<>>
    /\ (Len(tx') > Len(tx) /\ tx'[Len(tx')].type = "GeneratorDone") =>
         steps' = <<>>
    /\ (Len(tx') > Len(tx) /\ IsCompletion(tx'[Len(tx')])) => UnitEnds

C6_DoneOnlyWhenNoUnitPending == [][C6_CompletionStep]_vars

\* C6 witness: a StepDone with a preview map and, later, a Done were sent
C6_Witness ==
    \E p, q \in 1..Len(tx) :
      /\ p < q
      /\ tx[p].type = "GeneratorStepDone" /\ tx[p].map # <<>>
      /\ tx[q].type = "GeneratorDone"

\* C7: the worker blocks only when no unit is pending.
C7_BlocksOnlyWhenNoUnitPending == pc = "idle" => steps = <<>>

\* C7 witness: the worker is back in the blocking wait after executing
\* units, with a command already waiting for it
C7_Witness == pc = "idle" /\ hist.started >= 2 /\ rx # <<>>

\* C8: drain before execute.  A unit is taken only from the draining state
\* with the command channel empty, so every command sent before is
\* applied; the executing phase runs that one unit and is followed by
\* draining (or the idle wait), never by the next unit.
C8_DrainStep ==
    /\ hist'.started # hist.started => (pc = "drain" /\ rx = <<>>)
    /\ (pc # "exec" /\ pc' = "exec") => hist'.started # hist.started
    /\ pc = "exec" => (cur' = cur /\ hist'.started = hist.started)
    /\ UnitEnds => pc' \in {"idle", "drain"}

C8_DrainBeforeExecute == [][C8_DrainStep]_vars

\* C8 witness: a second unit runs, with a unit pending, after an Abort that
\* arrived during an earlier unit was applied
C8_Witness ==
    /\ pc = "exec" /\ steps # <<>>
    /\ hist.overtaken
    /\ rx = <<>>

\* C22: the worker never indexes the stage cache out of range.  Under the
\* consumer protocol the unit the worker is about to execute has an index
\* no greater than the cache length, and the DeleteStep, EnableStep or
\* DisableStep it is about to apply has an index below the cache length.
C22_IndicesInRange ==
    mode = "live" =>
      /\ (pc = "drain" /\ CanStartUnit(rx, steps)) =>
           TakeUnit(steps).unit.index <= Len(wgen.hmap)
      /\ (pc \in {"idle", "drain"} /\ rx # <<>>
            /\ Head(rx).cmd \in {"DeleteStep", "EnableStep", "DisableStep"}) =>
           Head(rx).index < Len(wgen.hmap)

\* the project the user loads first
LoadedList ==
    << MkStep("Hills", HillsA, FALSE, NoMask),
       MkStep("Normalize", NormalizeB, FALSE, "ones") >>

\* the worker waits and the consumer has handled SaveLoadAction::Load of a
\* project of two steps: Clear, then set_seed, which sends SetSeed and
\* calls regen(false, 0), are to be sent
RunInit ==
    /\ wgen = NewWorldGenerator(LiveWorld.seed, <<LiveWorld.size, LiveWorld.size>>)
    /\ fresh = wgen
    /\ live \in BOOLEAN
    /\ gsteps = LoadedList
    /\ outbox = << [cmd |-> "Clear"],
                   [cmd |-> "SetSeed", seed |-> LiveWorld.seed] >>
                \o regen(FALSE, 0, gsteps, live, 0)
    /\ running = TRUE
    /\ steps = <<>> /\ pc = "idle" /\ cur = <<>> /\ prog = <<>>
    /\ rx = <<>> /\ tx = <<>>
    /\ edits = 1 /\ ticket = RegenUnits(0, gsteps)
    /\ hist = [started |-> 0, recv |-> 0, overtaken |-> FALSE,
               discarded |-> FALSE, last |-> "none"]
    /\ before = <<>> /\ clock = 0 /\ mode = "live" /\ redo = 0

RunSpec == RunInit /\ [][Next]_vars

\* C23: every run ends with Done.  Whenever the worker is in its blocking
\* wait after having executed at least one unit since it last was there,
\* the last completion message it sent is GeneratorDone.
C23_RunEndsWithDone ==
    (mode = "live" /\ pc = "idle") => hist.last \in {"none", "GeneratorDone"}

\* the same only once every command and every message was handled
RunEndsWithDoneAtRest ==
    (mode = "live" /\ Quiescent /\ tx = <<>>) =>
      hist.last \in {"none", "GeneratorDone"}

----------------------------------------------------------------------------
(* Pipeline runs: one engine executes a step list in order from an empty   *)
(* cache, the list drawn from every combination of configuration,          *)
(* disabled flag and mask.                                                 *)

\* every Step over the model's configurations, flags and masks
AllSteps ==
    { MkStep(t[1], t[2], d, m) :
        t \in { <<"Hills", HillsA>>, <<"Hills", HillsB>>,
                <<"Normalize", NormalizeB>> },
        d \in BOOLEAN,
        m \in {NoMask} \cup MaskNames }

PipeInit ==
    /\ WorkerAtRest
    /\ \E w \in Worlds :
         /\ wgen = NewWorldGenerator(w.seed, <<w.size, w.size>>)
         /\ fresh = NewWorldGenerator(w.seed, <<w.size, w.size>>)
    /\ gsteps \in ListsUpTo(AllSteps, MaxSteps)
    /\ edits = 0 /\ clock = 0 /\ mode = "pipeline" /\ redo = 0 /\ before = <<>>

PipelineSpec == PipeInit /\ [][EngExecute]_vars

\* what the generator of step i of the list wrote before the mask was
\* applied, recomputed from the cache entry before it
Generated(i) ==
    Generate(wgen.seed, wgen.world_size,
             IF i > 1 THEN wgen.hmap[i - 1].h
             ELSE ZeroMap(wgen.world_size[1] * wgen.world_size[2]),
             gsteps[i], MinProgressStep(gsteps)).h

\* C11: a mask of all 0.0 makes the composite equal the baseline.  An entry
\* computed with an all-0.0 mask equals the previous entry's map in every
\* cell when it has one, and at index 0 every cell equals the minimum of
\* the freshly generated map.
C11_MaskZerosBaseline ==
    \A i \in 1..Min(redo, Len(wgen.hmap)) :
      gsteps[i].mask = "zeros" =>
        IF i > 1
        THEN wgen.hmap[i].h = wgen.hmap[i - 1].h
        ELSE \A c \in 1..Len(wgen.hmap[1].h) :
               wgen.hmap[1].h[c] = get_min_max(Generated(1))[1]

\* C11 witness: enabled Hills steps with the all-0.0 mask ran at index 0
\* and at index 1, over a previous map that the second one would have
\* changed
C11_Witness ==
    /\ redo = 2 /\ Len(wgen.hmap) = 2
    /\ \A i \in 1..2 :
         /\ gsteps[i].mask = "zeros"
         /\ gsteps[i].typ = "Hills" /\ ~gsteps[i].disabled
    /\ Generated(2) # wgen.hmap[1].h
    /\ \E c \in 1..Len(Generated(1)) : Generated(1)[c] # Generated(1)[1]
\* C12: a disabled step is a no-op pass-through.  An entry computed from a
\* disabled step, of any variant and with or without a mask, equals the
\* previous entry's map, or the all-zero map at index 0.
C12_DisabledPassThrough ==
    \A i \in 1..Min(redo, Len(wgen.hmap)) :
      gsteps[i].disabled =>
        wgen.hmap[i].h =
          IF i > 1 THEN wgen.hmap[i - 1].h
          ELSE ZeroMap(wgen.world_size[1] * wgen.world_size[2])

\* C12 witness: a disabled Hills step with a mask ran at index 1 over a map
\* that is not flat, and its generator would have changed that map
C12_Witness ==
    /\ redo = 2 /\ Len(wgen.hmap) = 2
    /\ gsteps[2].disabled /\ gsteps[2].typ = "Hills"
    /\ gsteps[2].mask = "left"
    /\ \E c \in 1..Len(wgen.hmap[1].h) : wgen.hmap[1].h[c] # wgen.hmap[1].h[1]
    /\ GenerateAlways(wgen.seed, wgen.world_size, wgen.hmap[1].h, gsteps[2],
                      MinProgressStep(gsteps)).h # wgen.hmap[1].h

----------------------------------------------------------------------------
(* The worker under any client of the command channel: the client sends    *)
(* any WorldGenCommand at any time, to an engine that already holds a      *)
(* cache.                                                                  *)

\* most commands a client sends in one run
MaxCmds == 2

\* a step list of length n, Hills and Normalize in turn
BaseList(n) ==
    [i \in 1..n |-> IF i % 2 = 1 THEN MkStep("Hills", HillsA, FALSE, NoMask)
                    ELSE MkStep("Normalize", NormalizeB, FALSE, "left")]

\* the commands a client sends; an ExecuteStep is numbered tk
Commands(tk) ==
    { [cmd |-> "Clear"], [cmd |-> "Abort", from_idx |-> 0],
      [cmd |-> "SetSeed", seed |-> 6], [cmd |-> "SetSize", size |-> 3] }
    \cup { [cmd |-> c, index |-> i] :
             c \in {"DeleteStep", "DisableStep", "EnableStep", "GetStepMap"},
             i \in 0..MaxSteps }
    \cup { [cmd |-> "ExecuteStep", index |-> i,
            step |-> MkStep("Hills", HillsA, FALSE, "ones"), live |-> FALSE,
            min_progress_step |-> FP \div 100, id |-> tk] :
             i \in 0..MaxSteps }

CmdInit ==
    /\ \E n \in 0..MaxSteps :
         /\ gsteps = BaseList(n)
         /\ wgen = generate(NewWorldGenerator(LiveWorld.seed,
                                              <<LiveWorld.size, LiveWorld.size>>),
                            gsteps)
    /\ fresh = NewWorldGenerator(LiveWorld.seed, <<LiveWorld.size, LiveWorld.size>>)
    /\ live = FALSE /\ outbox = <<>> /\ running = FALSE
    /\ steps = <<>> /\ pc = "idle" /\ cur = <<>> /\ prog = <<>>
    /\ rx = <<>> /\ tx = <<>>
    /\ edits = 0 /\ ticket = 0
    /\ hist = [started |-> 0, recv |-> 0, overtaken |-> FALSE,
               discarded |-> FALSE, last |-> "none"]
    /\ before = <<>> /\ clock = 0 /\ mode = "commands" /\ redo = 0

\* main2wgen_tx.send(command), for any command
ClientSend ==
    /\ edits < MaxCmds
    /\ pc # "panicked"
    /\ \E c \in Commands(ticket + 1) :
         /\ rx' = Append(rx, c)
         /\ ticket' = IF c.cmd = "ExecuteStep" THEN ticket + 1 ELSE ticket
    /\ edits' = edits + 1
    /\ UNCHANGED <<wgen, steps, pc, cur, prog, tx, gsteps, outbox, running,
                   hist, live, engvars>>

CmdNext ==
    \/ WorkerRecv
    \/ WorkerTryRecv
    \/ WorkerDrained
    \/ WorkerStartUnit
    \/ WorkerProgress
    \/ WorkerFinishUnit
    \/ ClientSend

CommandSpec == CmdInit /\ [][CmdNext]_vars

\* C13: out-of-range reads never error.  GetStepMap(index) is answered, on
\* the message channel, with the all-zero map of the world size when the
\* cache has no entry index and with a copy of entry index otherwise;
\* get_export_map on an empty cache is the all-zero map; the cache and the
\* pending units are unchanged.
C13_GetStepMapStep ==
    /\ Applies("GetStepMap") =>
         LET index == Head(rx).index
         IN /\ pc' \in {"idle", "drain"}
            /\ wgen' = wgen /\ steps' = steps
            /\ tx' = Append(tx,
                 [type |-> "GeneratorStepMap", index |-> index,
                  map |-> [size |-> wgen.world_size,
                           h |-> IF index >= Len(wgen.hmap)
                                 THEN ZeroMap(wgen.world_size[1]
                                              * wgen.world_size[2])
                                 ELSE wgen.hmap[index + 1].h]])
    /\ wgen.hmap = <<>> =>
         get_export_map(wgen) =
           [size |-> wgen.world_size,
            h |-> ZeroMap(wgen.world_size[1] * wgen.world_size[2])]

C13_OutOfRangeReads == [][C13_GetStepMapStep]_vars

\* C13 witness: on a cache that is not empty and not flat, one GetStepMap
\* was answered with an entry and one, past the end, with the zero map
C13_Witness ==
    /\ wgen.hmap # <<>>
    /\ Len(tx) = 2
    /\ \A i \in 1..2 : tx[i].type = "GeneratorStepMap"
    /\ tx[1].index < Len(wgen.hmap) /\ tx[1].map.h = wgen.hmap[tx[1].index + 1].h
    /\ tx[1].map.h # ZeroMap(Len(tx[1].map.h))
    /\ tx[2].index >= Len(wgen.hmap) /\ tx[2].map.h = ZeroMap(Len(tx[2].map.h))
\* C14: changing the world size invalidates the whole cache.  After
\* SetSize(s) the engine is the engine WorldGenerator::new makes: empty
\* cache, world size (s, s), the seed it had; Clear empties the cache and
\* keeps seed and world size.
C14_SetSizeStep ==
    /\ Applies("SetSize") =>
         /\ pc' \in {"idle", "drain"}
         /\ wgen'.hmap = <<>>
         /\ wgen'.world_size = <<Head(rx).size, Head(rx).size>>
         /\ wgen'.seed = wgen.seed
         /\ wgen' = NewWorldGenerator(wgen.seed, wgen'.world_size)
    /\ Applies("Clear") =>
         /\ pc' \in {"idle", "drain"}
         /\ wgen'.hmap = <<>>
         /\ wgen'.world_size = wgen.world_size
         /\ wgen'.seed = wgen.seed

C14_SetSizeInvalidatesCache == [][C14_SetSizeStep]_vars

\* C14 witness: the engine held a cache, the one command sent was SetSize,
\* and the engine now has the new size, the old seed and no entry
C14_Witness ==
    /\ mode = "commands" /\ gsteps # <<>>
    /\ edits = 1 /\ rx = <<>>
    /\ wgen.world_size = <<3, 3>> /\ wgen.world_size # <<LiveWorld.size, LiveWorld.size>>
    /\ wgen.seed = LiveWorld.seed
    /\ wgen.hmap = <<>>

\* C15: DeleteStep, EnableStep and DisableStep mutate without
\* recomputation.  DeleteStep(index) removes entry index and moves the
\* later entries down by one, maps unchanged; EnableStep and DisableStep
\* change only the disabled flag of entry index; none changes the pending
\* units or sends a message.  (With no entry index the worker panics and
\* the cache is as it was.)
C15_MutateStep ==
    /\ Applies("DeleteStep") =>
         LET index == Head(rx).index
         IN IF index < Len(wgen.hmap)
            THEN /\ Len(wgen'.hmap) = Len(wgen.hmap) - 1
                 /\ \A j \in 1..index : wgen'.hmap[j] = wgen.hmap[j]
                 /\ \A j \in (index + 1)..Len(wgen'.hmap) :
                      wgen'.hmap[j] = wgen.hmap[j + 1]
                 /\ wgen'.seed = wgen.seed
                 /\ wgen'.world_size = wgen.world_size
            ELSE wgen' = wgen /\ pc' = "panicked"
    /\ \A c \in {"DisableStep", "EnableStep"} :
         Applies(c) =>
           LET index == Head(rx).index
           IN IF index < Len(wgen.hmap)
              THEN wgen' = [wgen EXCEPT !.hmap[index + 1].disabled =
                                           (c = "DisableStep")]
              ELSE wgen' = wgen /\ pc' = "panicked"
    /\ \A c \in {"DeleteStep", "DisableStep", "EnableStep"} :
         Applies(c) => (steps' = steps /\ tx' = tx /\ pc' # "exec")

C15_MutateWithoutRecompute == [][C15_MutateStep]_vars

\* C15 witness: from a cache of two different entries, DeleteStep(0) and
\* then DisableStep(0) were applied: the one entry left is the old entry 1,
\* flagged disabled
C15_Witness ==
    /\ mode = "commands" /\ Len(gsteps) = 2
    /\ edits = 2 /\ rx = <<>> /\ tx = <<>> /\ hist.started = 0
    /\ Len(wgen.hmap) = 1
    /\ wgen.hmap[1].disabled
    /\ LET old == generate(wgen, gsteps).hmap
       IN wgen.hmap[1].h = old[2].h /\ old[2].h # old[1].h
----------------------------------------------------------------------------
(* Normalize on any grid: the engine holds one entry with a grid drawn     *)
(* from a set of heights, and executes a Normalize step at index 1.        *)

\* the heights the grids are drawn from
GridValues == {0 - FP, 0, 300, FP, 3 * FP}

\* target ranges lo <= hi, one of them empty
NormalizeFlat == [min |-> 0 - FP, max |-> 0 - FP]

NormalizeConfs == {NormalizeA, NormalizeB, NormalizeFlat}

NormInit ==
    /\ WorkerAtRest
    /\ \E g \in [1..(LiveWorld.size * LiveWorld.size) -> GridValues] :
         wgen = [seed |-> LiveWorld.seed,
                 world_size |-> <<LiveWorld.size, LiveWorld.size>>,
                 hmap |-> << [h |-> g, disabled |-> FALSE] >>]
    /\ fresh = NewWorldGenerator(LiveWorld.seed, <<LiveWorld.size, LiveWorld.size>>)
    /\ \E conf \in NormalizeConfs :
         gsteps = << MkStep("Normalize", NormalizeA, TRUE, NoMask),
                     MkStep("Normalize", conf, FALSE, NoMask) >>
    /\ edits = 0 /\ clock = 0 /\ mode = "normalize" /\ redo = 1 /\ before = <<>>

NormSpec == NormInit /\ [][EngExecute]_vars

\* C16: normalize round-trip.  For lo <= hi, after normalize(h, lo, hi)
\* every cell v of a non-constant grid is lo + (v - min)*(hi - lo)/(max - min)
\* and a min/max scan gives lo and, up to the rounding of the division and
\* the product (one unit per 1.0 of max - min, plus one), hi; on a constant
\* grid every cell is lo.
C16_NormalizeRoundTrip ==
    (mode = "normalize" /\ redo = 2) =>
      LET v == wgen.hmap[1].h
          out == wgen.hmap[2].h
          mm == get_min_max(v)
          lo == gsteps[2].conf.min
          hi == gsteps[2].conf.max
          scan == get_min_max(out)
      IN IF mm[1] = mm[2]
         THEN /\ \A c \in 1..Len(out) : out[c] = lo
              /\ scan = <<lo, lo>>
         ELSE /\ \A c \in 1..Len(out) :
                   out[c] = lo + FMul(v[c] - mm[1],
                                      FDiv(hi - lo, mm[2] - mm[1]))
              /\ scan[1] = lo
              /\ scan[2] <= hi
              /\ hi - scan[2] <= (mm[2] - mm[1]) \div FP + 1

\* C16 witness: a grid with three different heights was normalized to a
\* range lo < hi and the scan gives exactly (lo, hi)
C16_Witness ==
    /\ mode = "normalize" /\ redo = 2
    /\ Cardinality({wgen.hmap[1].h[c] : c \in 1..Len(wgen.hmap[1].h)}) >= 3
    /\ gsteps[2].conf.min < gsteps[2].conf.max
    /\ get_min_max(wgen.hmap[2].h) = <<gsteps[2].conf.min, gsteps[2].conf.max>>
----------------------------------------------------------------------------
(* MidPoint on its own: an engine executes one MidPoint step at index 0.   *)

\* the world sizes (size x size): powers of two and powers of two plus one
MidPointSizes == {3, 4, 5, 8, 9}

MidPointConfs == { [roughness |-> FP], [roughness |-> (7 * FP) \div 10] }

MidInit ==
    /\ WorkerAtRest
    /\ \E seed \in 0..(RngMod - 1), size \in MidPointSizes :
         /\ wgen = NewWorldGenerator(seed, <<size, size>>)
         /\ fresh = NewWorldGenerator(seed, <<size, size>>)
    /\ \E conf \in MidPointConfs :
         gsteps = << MkStep("MidPoint", conf, FALSE, NoMask) >>
    /\ edits = 0 /\ clock = 0 /\ mode = "midpoint" /\ redo = 0 /\ before = <<>>

MidPointSpec == MidInit /\ [][EngExecute]_vars

\* what gen_mid_point did in the step the engine executed
MidPointRun ==
    gen_mid_point(wgen.seed, wgen.world_size,
                  ZeroMap(wgen.world_size[1] * wgen.world_size[2]),
                  gsteps[1].conf, MinProgressStep(gsteps))

\* C17: diamond-square corner invariance.  For every world size, after
\* gen_mid_point no square_step or diamond_step has written a corner cell,
\* and the four corners hold the heights drawn for them at initialization.
C17_CornersUnchanged ==
    (mode = "midpoint" /\ redo = 1) =>
      LET size == wgen.world_size
          cells == CornerCells(size)
      IN /\ \A i \in 1..4 :
              <<(cells[i] - 1) % size[1], (cells[i] - 1) \div size[1]>>
                \notin MidPointRun.written
         /\ \A i \in 1..4 :
              wgen.hmap[1].h[cells[i]] = CornerDraws(wgen.seed)[i]

\* the same for the sizes 2^n + 1 only
CornersUnchangedOddSizes ==
    (mode = "midpoint" /\ redo = 1 /\ wgen.world_size[1] % 2 = 1) =>
      LET size == wgen.world_size
          cells == CornerCells(size)
      IN /\ \A i \in 1..4 :
              <<(cells[i] - 1) % size[1], (cells[i] - 1) \div size[1]>>
                \notin MidPointRun.written
         /\ \A i \in 1..4 :
              wgen.hmap[1].h[cells[i]] = CornerDraws(wgen.seed)[i]
----------------------------------------------------------------------------
(* LandMass on any grid: the engine holds one entry with a grid drawn from *)
(* a set of heights, and executes a LandMass step at index 1.              *)

\* the heights the grids are drawn from
LandValues == {0, FP \div 4, FP \div 2, 1020, FP}

LandConfs ==
    { [land_proportion |-> lp, water_level |-> wl, plain_factor |-> pf,
       shore_height |-> (5 * FP) \div 100] :
        lp \in {(6 * FP) \div 10, FP \div 4},
        wl \in {(12 * FP) \div 100, FP \div 2},
        pf \in {FP, 2 * FP} }

LandInit ==
    /\ WorkerAtRest
    /\ \E g \in [1..(LiveWorld.size * LiveWorld.size) -> LandValues] :
         wgen = [seed |-> LiveWorld.seed,
                 world_size |-> <<LiveWorld.size, LiveWorld.size>>,
                 hmap |-> << [h |-> g, disabled |-> FALSE] >>]
    /\ fresh = NewWorldGenerator(LiveWorld.seed, <<LiveWorld.size, LiveWorld.size>>)
    /\ \E conf \in LandConfs :
         gsteps = << MkStep("Normalize", NormalizeA, TRUE, NoMask),
                     MkStep("LandMass", conf, FALSE, NoMask) >>
    /\ edits = 0 /\ clock = 0 /\ mode = "landmass" /\ redo = 1 /\ before = <<>>

LandSpec == LandInit /\ [][EngExecute]_vars

\* the cells at or below the configured water level after the step
CellsUnderWater ==
    Cardinality({c \in 1..Len(wgen.hmap[2].h) :
                   wgen.hmap[2].h[c] <= gsteps[2].conf.water_level})

\* |cells under water - (1 - p) * W * H|, in fixed-point units
LandDeviation ==
    LET d == CellsUnderWater * FP
             - TargetWaterCells(Len(wgen.hmap[1].h), gsteps[2].conf)
    IN IF d < 0 THEN 0 - d ELSE d

\* C18: land proportion accuracy.  After gen_landmass the number of cells
\* at or below the configured water level differs from (1 - p) * W * H by
\* no more than the population of one bucket of the 256-bucket histogram
\* of the normalized heights.
C18_LandProportion ==
    (mode = "landmass" /\ redo = 2) =>
      \E b \in 0..255 :
        LandDeviation <= HeightCount(normalize(wgen.hmap[1].h, 0, FP), b) * FP

\* the same when the while loop stops below the last bucket, with the
\* bucket it stopped on
LandProportionBelowTop ==
    (mode = "landmass" /\ redo = 2) =>
      LET h1 == normalize(wgen.hmap[1].h, 0, FP)
          wl == WaterLevel(h1, TargetWaterCells(Len(h1), gsteps[2].conf))
      IN wl < 255 => LandDeviation <= HeightCount(h1, wl - 1) * FP
----------------------------------------------------------------------------
(* exporter.rs: the export thread generates the world at export resolution *)
(* and writes one file per tile.  In an export run `cur` is the            *)
(* PanelExport, `ticket` the number of tiles written, `hist` the files     *)
(* written, each with the world pixel every file pixel sampled, and        *)
(* `outbox` the ExporterDone message.                                      *)

\* WorldGenerator::combined_height(x, y)
combined_height(w, x, y) ==
    LET off == x + y * w.world_size[1]
    IN IF w.hmap # <<>> /\ off < w.world_size[1] * w.world_size[2]
       THEN w.hmap[Len(w.hmap)].h[off + 1]
       ELSE 0

\* WorldGenerator::get_min_max
wgen_get_min_max(w) ==
    IF w.hmap = <<>> THEN <<0, 0>> ELSE get_min_max(w.hmap[Len(w.hmap)].h)

\* export_heightmap: the world size, (width * tiles_h, height * tiles_v)
ExportWorldSize(export_data) ==
    << AsUsize(FMul(export_data.export_width, export_data.tiles_h)),
       AsUsize(FMul(export_data.export_height, export_data.tiles_v)) >>

\* export_heightmap: offset_x that never repeats a column
offset_x_abutting(export_data, tile_x) ==
    tile_x * AsUsize(export_data.export_width)

\* export_heightmap: offset_x of tile column tx
offset_x(export_data, tile_x) ==
    IF export_data.seamless
    THEN tile_x * (AsUsize(export_data.export_width) - 1)
    ELSE tile_x * AsUsize(export_data.export_width)

\* export_heightmap: offset_y of tile row ty
offset_y(export_data, tile_y) ==
    IF export_data.seamless
    THEN tile_y * (AsUsize(export_data.export_height) - 1)
    ELSE tile_y * AsUsize(export_data.export_height)

\* export_heightmap: coef
ExportCoef(w) ==
    LET mm == wgen_get_min_max(w)
    IN IF mm[2] - mm[1] > 0 THEN FDiv(FP, mm[2] - mm[1]) ELSE FP

\* write_png: (h * 65535.0) as u16, a saturating cast
PngPixel(h) == Min(65535, AsUsize(h * 65535))

\* write_exr: f16::from_f32(h); the f16 step is below one fixed-point unit
\* for the remapped heights
ExrPixel(h) == h

\* export_heightmap: format!("{}_x{}_y{}.{}", file_path, tx, ty, file_type)
TilePath(export_data, tile_x, tile_y) ==
    <<"file_path", "_x", tile_x, "_y", tile_y, ".", export_data.file_type>>

\* write_png / write_exr: the file of one tile, pixel px + py * file_width
\* at index px + py * file_width + 1
WriteTile(w, export_data, tile_x, tile_y) ==
    LET file_width == AsUsize(export_data.export_width)
        file_height == AsUsize(export_data.export_height)
        min == wgen_get_min_max(w)[1]
        coef == ExportCoef(w)
        X(i) == ((i - 1) % file_width) + offset_x(export_data, tile_x)
        Y(i) == ((i - 1) \div file_width) + offset_y(export_data, tile_y)
    IN [tx |-> tile_x, ty |-> tile_y,
        path |-> TilePath(export_data, tile_x, tile_y),
        ext |-> export_data.file_type,
        sampled |-> [i \in 1..(file_width * file_height) |-> <<X(i), Y(i)>>],
        pixels |-> [i \in 1..(file_width * file_height) |->
                      LET h == FMul(combined_height(w, X(i), Y(i)) - min, coef)
                      IN IF export_data.file_type = "png" THEN PngPixel(h)
                         ELSE ExrPixel(h)]]

\* the PanelExport values drawn: tile sizes (one of them fractional) and
\* tile counts, as the f32 the panel holds
ExportDatas ==
    { [export_width |-> ew, export_height |-> eh, tiles_h |-> th,
       tiles_v |-> tv, seamless |-> s, file_type |-> ft] :
        ew \in {FP, 2 * FP, (5 * FP) \div 2, 3 * FP},
        eh \in {FP, 2 * FP},
        th \in {FP, 2 * FP, 3 * FP},
        tv \in {FP, 2 * FP},
        s \in BOOLEAN,
        ft \in {"png", "exr"} }

\* the step lists exported
ExportLists ==
    { <<>>,
      << MkStep("Hills", HillsA, FALSE, NoMask) >>,
      << MkStep("Hills", HillsA, FALSE, NoMask),
         MkStep("Normalize", NormalizeB, FALSE, NoMask) >> }

\* MyApp::export has spawned the thread, which has created its
\* WorldGenerator
ExportInit ==
    /\ steps = <<>> /\ prog = <<>> /\ rx = <<>> /\ tx = <<>>
    /\ outbox = <<>> /\ running = FALSE /\ live = FALSE
    /\ pc = "generate" /\ ticket = 0 /\ hist = <<>>
    /\ cur \in ExportDatas
    /\ gsteps \in ExportLists
    /\ wgen = NewWorldGenerator(LiveWorld.seed, ExportWorldSize(cur))
    /\ fresh = NewWorldGenerator(LiveWorld.seed, ExportWorldSize(cur))
    /\ edits = 0 /\ clock = 0 /\ mode = "export" /\ redo = 0 /\ before = <<>>

\* wgen.generate(steps, tx, min_progress_step)
ExportGenerate ==
    /\ mode = "export" /\ pc = "generate"
    /\ wgen' = generate(wgen, gsteps)
    /\ pc' = "tiles"
    /\ UNCHANGED <<steps, cur, prog, rx, tx, gsteps, outbox, running, edits,
                   ticket, hist, live, engvars>>

\* one turn of the tile loops, ty outside and tx inside: the file is written
ExportTile ==
    /\ mode = "export" /\ pc = "tiles"
    /\ ticket < AsUsize(cur.tiles_h) * AsUsize(cur.tiles_v)
    /\ hist' = Append(hist, WriteTile(wgen, cur, ticket % AsUsize(cur.tiles_h),
                                      ticket \div AsUsize(cur.tiles_h)))
    /\ ticket' = ticket + 1
    /\ UNCHANGED <<wgen, steps, pc, cur, prog, rx, tx, gsteps, outbox,
                   running, edits, live, engvars>>

\* a failed save that is dropped: the loops go on with the next tile
ExportTileSkipsFailure ==
    /\ mode = "export" /\ pc = "tiles"
    /\ ticket < AsUsize(cur.tiles_h) * AsUsize(cur.tiles_v)
    /\ ticket' = ticket + 1
    /\ UNCHANGED <<wgen, steps, pc, cur, prog, rx, tx, gsteps, outbox,
                   running, edits, hist, live, engvars>>

\* one turn of the tile loops where saving the file fails:
\* map_err(|e| format!("Error while saving {}: {}", &path, e)), `?` returns
\* the error and the thread sends ExporterDone(Err)
ExportTileFails ==
    /\ mode = "export" /\ pc = "tiles"
    /\ ticket < AsUsize(cur.tiles_h) * AsUsize(cur.tiles_v)
    /\ outbox' = << [typ |-> "ExporterDone",
                     res |-> << <<"Error while saving ",
                                  TilePath(cur, ticket % AsUsize(cur.tiles_h),
                                           ticket \div AsUsize(cur.tiles_h)),
                                  ": ", "e">> >>] >>
    /\ pc' = "done"
    /\ UNCHANGED <<wgen, steps, cur, prog, rx, tx, gsteps, running, edits,
                   ticket, hist, live, engvars>>

\* the loops are over: Ok(()), and the thread sends ExporterDone(Ok)
ExportDone ==
    /\ mode = "export" /\ pc = "tiles"
    /\ ticket = AsUsize(cur.tiles_h) * AsUsize(cur.tiles_v)
    /\ outbox' = << [typ |-> "ExporterDone", res |-> <<>>] >>
    /\ pc' = "done"
    /\ UNCHANGED <<wgen, steps, cur, prog, rx, tx, gsteps, running, edits,
                   ticket, hist, live, engvars>>

ExportNext == ExportGenerate \/ ExportTile \/ ExportTileFails \/ ExportDone

ExportSpec == ExportInit /\ [][ExportNext]_vars

\* the index in a file of pixel (px, py)
PixelAt(px, py) == px + py * AsUsize(cur.export_width) + 1

\* C19: seamless tiling equality.  In a seamless export, for every written
\* tile (tx, ty) whose right neighbour is written and every row py, pixel
\* (w-1, py) of the tile and pixel (0, py) of the neighbour sample world
\* pixel ((tx+1)(w-1), ty(h-1)+py) and are equal; and every world pixel a
\* tile samples lies inside the world generated at export resolution.
C19_SeamlessTiling ==
    (mode = "export" /\ cur.seamless) =>
      LET w == AsUsize(cur.export_width)
          h == AsUsize(cur.export_height)
      IN /\ \A a, b \in 1..Len(hist) :
              (hist[b].tx = hist[a].tx + 1 /\ hist[b].ty = hist[a].ty) =>
                \A py \in 0..(h - 1) :
                  /\ hist[a].sampled[PixelAt(w - 1, py)]
                       = <<(hist[a].tx + 1) * (w - 1), hist[a].ty * (h - 1) + py>>
                  /\ hist[b].sampled[PixelAt(0, py)]
                       = hist[a].sampled[PixelAt(w - 1, py)]
                  /\ hist[b].pixels[PixelAt(0, py)]
                       = hist[a].pixels[PixelAt(w - 1, py)]
         /\ \A a \in 1..Len(hist) : \A i \in DOMAIN hist[a].sampled :
              /\ hist[a].sampled[i][1] < wgen.world_size[1]
              /\ hist[a].sampled[i][2] < wgen.world_size[2]

\* a seamless export of tiles at least two pixels wide has written two
\* neighbours whose pixels are not all the same
C19_Witness ==
    /\ mode = "export" /\ cur.seamless /\ AsUsize(cur.export_width) >= 2
    /\ gsteps # <<>>
    /\ \E a, b \in 1..Len(hist) :
         /\ hist[b].tx = hist[a].tx + 1 /\ hist[b].ty = hist[a].ty
         /\ \E i, j \in DOMAIN hist[a].pixels :
              hist[a].pixels[i] # hist[a].pixels[j]
\* the tile the loops reach in turn number n (from 0): ty outside, tx inside
TileOfTurn(n) == <<n % AsUsize(cur.tiles_h), n \div AsUsize(cur.tiles_h)>>

\* C21: export I/O failure aborts the remaining tiles.  Tiles are written
\* in row-major order; the step in which a save fails sends the only
\* ExporterDone, with an error naming the path of the tile that failed, and
\* leaves the files written so far; after it no file is written or removed
\* and no other message is sent.
C21_ExportStep ==
    mode = "export" =>
      /\ \A k \in 1..Len(hist') :
           <<hist'[k].tx, hist'[k].ty>> = TileOfTurn(k - 1)
      /\ \A k \in 1..Len(hist) : k <= Len(hist') /\ hist'[k] = hist[k]
      /\ pc = "done" => (hist' = hist /\ outbox' = outbox)
      /\ outbox' # outbox =>
           /\ outbox = <<>> /\ Len(outbox') = 1
           /\ outbox'[1].typ = "ExporterDone"
           /\ hist' = hist
           /\ outbox'[1].res # <<>> =>
                /\ Len(hist) < AsUsize(cur.tiles_h) * AsUsize(cur.tiles_v)
                /\ outbox'[1].res[1][2]
                     = TilePath(cur, TileOfTurn(Len(hist))[1],
                                TileOfTurn(Len(hist))[2])
           /\ outbox'[1].res = <<>> =>
                Len(hist) = AsUsize(cur.tiles_h) * AsUsize(cur.tiles_v)

C21_ExportFailureAborts == [][C21_ExportStep]_vars

\* a save has failed after a file was written and before the last tile
C21_Witness ==
    /\ mode = "export" /\ pc = "done"
    /\ Len(outbox) = 1 /\ outbox[1].res # <<>>
    /\ Len(hist) >= 1
    /\ Len(hist) + 1 < AsUsize(cur.tiles_h) * AsUsize(cur.tiles_v)

----------------------------------------------------------------------------
(* panel_generator.rs: saving and loading the project.  In these runs the  *)
(* PanelGenerator is spread over `gsteps` (steps), `running` (is_running)  *)
(* and `cur` (the other fields); `prog` holds the file at the path of the  *)
(* save/load panel, `hist` is MyApp.err_msg, `rx` the commands sent to the *)
(* worker, and `before` the project before the last load with the file it  *)
(* read and the Result it returned.                                        *)

\* main.rs: pub const VERSION: &str = env!("CARGO_PKG_VERSION")
VERSION == "CARGO_PKG_VERSION"

\* the PanelGenerator in memory
gen_panel ==
    [version |-> cur.version, is_running |-> running,
     mask_selected |-> cur.mask_selected, steps |-> gsteps,
     cur_step |-> cur.cur_step, selected_step |-> cur.selected_step,
     move_to_pos |-> cur.move_to_pos, hovered |-> cur.hovered,
     seed |-> cur.seed]

\* ron::to_string(self): the fields of PanelGenerator but the two marked
\* #[serde(skip)]
ron_to_string(p) ==
    [version |-> p.version, steps |-> p.steps, cur_step |-> p.cur_step,
     selected_step |-> p.selected_step, move_to_pos |-> p.move_to_pos,
     hovered |-> p.hovered, seed |-> p.seed]

\* ron::from_str(&contents): Ok with the skipped fields at their default, or
\* Err when the text is not a PanelGenerator
ron_from_str(file) ==
    IF file.ron
    THEN << [version |-> file.data.version, is_running |-> FALSE,
             mask_selected |-> FALSE, steps |-> file.data.steps,
             cur_step |-> file.data.cur_step,
             selected_step |-> file.data.selected_step,
             move_to_pos |-> file.data.move_to_pos,
             hovered |-> file.data.hovered, seed |-> file.data.seed] >>
    ELSE <<>>

\* PanelGenerator::load that assigns before it compares the versions
load_unchecked(p, file) ==
    IF ~file.opens THEN [self |-> p, res |-> << <<"Unable to open the file">> >>]
    ELSE IF ~file.reads
    THEN [self |-> p, res |-> << <<"Unable to read the file">> >>]
    ELSE IF ron_from_str(file) = <<>>
    THEN [self |-> p, res |-> << <<"Cannot parse the file : ", "e">> >>]
    ELSE LET gen_data == ron_from_str(file)[1]
         IN IF gen_data.version # VERSION
            THEN [self |-> gen_data,
                  res |-> << <<"Bad file version. Expected ", VERSION,
                               ", found ", gen_data.version>> >>]
            ELSE [self |-> gen_data, res |-> <<>>]

\* PanelGenerator::load(file_path): the project after the call, and the
\* Result, <<>> for Ok(()) and <<msg>> for Err(msg)
load(p, file) ==
    IF ~file.opens THEN [self |-> p, res |-> << <<"Unable to open the file">> >>]
    ELSE IF ~file.reads
    THEN [self |-> p, res |-> << <<"Unable to read the file">> >>]
    ELSE IF ron_from_str(file) = <<>>
    THEN [self |-> p, res |-> << <<"Cannot parse the file : ", "e">> >>]
    ELSE LET gen_data == ron_from_str(file)[1]
         IN IF gen_data.version # VERSION
            THEN [self |-> p,
                  res |-> << <<"Bad file version. Expected ", VERSION,
                               ", found ", gen_data.version>> >>]
            ELSE [self |-> gen_data, res |-> <<>>]

\* the step lists of the projects drawn
ProjectLists == { <<>>, << MkStep("Hills", HillsA, FALSE, NoMask) >> }

\* the serialized projects drawn
ProjectDatas ==
    { [version |-> v, steps |-> l,
       cur_step |-> MkStep("Hills", HillsA, FALSE, NoMask),
       selected_step |-> sel, move_to_pos |-> 0, hovered |-> FALSE,
       seed |-> sd] :
        v \in {VERSION, "older"}, l \in ProjectLists, sel \in {0, 1},
        sd \in {3, 6} }

\* a file that cannot be opened, one that cannot be read as text, one that
\* is not a project, and the project files
ProjectFiles ==
    LET any == CHOOSE d \in ProjectDatas : TRUE
    IN { [opens |-> FALSE, reads |-> FALSE, ron |-> FALSE, data |-> any],
         [opens |-> TRUE, reads |-> FALSE, ron |-> FALSE, data |-> any],
         [opens |-> TRUE, reads |-> TRUE, ron |-> FALSE, data |-> any] }
       \cup { [opens |-> TRUE, reads |-> TRUE, ron |-> TRUE, data |-> d] :
                d \in ProjectDatas }

LoadInit ==
    /\ steps = <<>> /\ pc = "idle" /\ rx = <<>> /\ tx = <<>>
    /\ outbox = <<>> /\ ticket = 0 /\ hist = <<>> /\ live = FALSE
    /\ \E d \in ProjectDatas :
         /\ d.version = VERSION
         /\ gsteps = d.steps
         /\ cur = [version |-> d.version, mask_selected |-> FALSE,
                   cur_step |-> d.cur_step, selected_step |-> d.selected_step,
                   move_to_pos |-> d.move_to_pos, hovered |-> d.hovered,
                   seed |-> d.seed]
    /\ running \in BOOLEAN
    /\ \E file \in ProjectFiles : prog = <<file>>
    /\ wgen = NewWorldGenerator(LiveWorld.seed, <<LiveWorld.size, LiveWorld.size>>)
    /\ fresh = NewWorldGenerator(LiveWorld.seed, <<LiveWorld.size, LiveWorld.size>>)
    /\ edits = 0 /\ clock = 0 /\ mode = "load" /\ redo = 0 /\ before = <<>>

\* SaveLoadAction::Load: gen_panel.load; on Err the message is kept, on Ok
\* Clear is sent and set_seed sends SetSeed and calls regen(false, 0)
LoadProject ==
    /\ mode = "load" /\ edits < MaxEdits
    /\ LET r == load(gen_panel, prog[1])
           p == r.self
           units == RegenUnits(0, p.steps)
       IN /\ before' = << [gen_panel |-> gen_panel, file |-> prog[1],
                           res |-> r.res] >>
          /\ gsteps' = p.steps
          /\ cur' = [version |-> p.version, mask_selected |-> p.mask_selected,
                     cur_step |-> p.cur_step,
                     selected_step |-> p.selected_step,
                     move_to_pos |-> p.move_to_pos, hovered |-> p.hovered,
                     seed |-> p.seed]
          /\ IF r.res # <<>>
             THEN /\ hist' = << <<"Error while reading project ">> \o r.res[1] >>
                  /\ running' = p.is_running
                  /\ UNCHANGED <<rx, ticket>>
             ELSE /\ rx' = rx \o << [cmd |-> "Clear"],
                                    [cmd |-> "SetSeed", seed |-> p.seed] >>
                               \o regen(FALSE, 0, p.steps, live, ticket)
                  /\ ticket' = ticket + units
                  /\ running' = IF units = 0 THEN p.is_running ELSE TRUE
                  /\ UNCHANGED hist
    /\ edits' = edits + 1
    /\ UNCHANGED <<wgen, steps, pc, prog, tx, outbox, live, fresh, clock,
                   mode, redo>>

\* SaveLoadAction::Save, PanelGenerator::save: the file is written
SaveProject ==
    /\ mode = "load" /\ edits < MaxEdits
    /\ prog' = << [opens |-> TRUE, reads |-> TRUE, ron |-> TRUE,
                   data |-> ron_to_string(gen_panel)] >>
    /\ edits' = edits + 1
    /\ UNCHANGED <<wgen, steps, pc, cur, rx, tx, gsteps, outbox, running,
                   ticket, hist, live, before, fresh, clock, mode, redo>>

\* SaveLoadAction::Save where File::create or write! fails: the message is
\* kept; after a failed write the file is there and holds no project
SaveProjectFails ==
    /\ mode = "load" /\ edits < MaxEdits
    /\ \E created \in BOOLEAN :
         /\ prog' = IF created
                    THEN << [opens |-> TRUE, reads |-> TRUE, ron |-> FALSE,
                             data |-> prog[1].data] >>
                    ELSE prog
         /\ hist' = << <<"Error while writing project ",
                         IF created THEN "Unable to write to the file"
                         ELSE "Unable to create the file">> >>
    /\ edits' = edits + 1
    /\ UNCHANGED <<wgen, steps, pc, cur, rx, tx, gsteps, outbox, running,
                   ticket, live, before, fresh, clock, mode, redo>>

\* the user edits the panel: another seed, another selected step
EditProject ==
    /\ mode = "load" /\ edits < MaxEdits
    /\ \E sd \in {3, 6}, sel \in {0, 1} :
         /\ <<sd, sel>> # <<cur.seed, cur.selected_step>>
         /\ cur' = [cur EXCEPT !.seed = sd, !.selected_step = sel]
    /\ edits' = edits + 1
    /\ UNCHANGED <<wgen, steps, pc, prog, rx, tx, gsteps, outbox, running,
                   ticket, hist, live, before, fresh, clock, mode, redo>>

LoadNext == LoadProject \/ SaveProject \/ SaveProjectFails \/ EditProject

LoadSpec == LoadInit /\ [][LoadNext]_vars

\* the cause of failure of loading a file: 0 for none
LoadFailure(file) ==
    IF ~file.opens THEN 1
    ELSE IF ~file.reads THEN 2
    ELSE IF ~file.ron THEN 3
    ELSE IF file.data.version # VERSION THEN 4
    ELSE 0

\* the messages of the four causes
LoadMessages ==
    << "Unable to open the file", "Unable to read the file",
       "Cannot parse the file : ", "Bad file version. Expected " >>

\* C20: project load failure leaves the in-memory project unchanged.  A
\* load of a file that cannot be opened, read or parsed, or whose version
\* is not the running one, returns the error of that cause, each cause with
\* its own message, and leaves every field of the project as it was; the
\* project is replaced by the file's only when all four checks pass.
C20_LoadStep ==
    (mode = "load" /\ before' # before) =>
      LET file == prog[1]
          cause == LoadFailure(file)
          res == before'[1].res
      IN /\ (cause # 0) <=> (res # <<>>)
         /\ cause # 0 =>
              /\ res[1][1] = LoadMessages[cause]
              /\ gen_panel' = gen_panel
         /\ cause = 0 =>
              /\ ron_to_string(gen_panel') = file.data
              /\ ron_to_string(gen_panel') = ron_to_string(ron_from_str(file)[1])
         /\ \A i, j \in 1..4 : i # j => LoadMessages[i] # LoadMessages[j]

C20_LoadFailureKeepsProject == [][C20_LoadStep]_vars

\* a load has failed on the version of a file whose project is not the one
\* in memory
C20_Witness ==
    /\ mode = "load" /\ before # <<>>
    /\ LoadFailure(before[1].file) = 4
    /\ before[1].res # <<>>
    /\ before[1].file.data.seed # before[1].gen_panel.seed
    /\ before[1].file.data.steps # before[1].gen_panel.steps
----------------------------------------------------------------------------
(* apply_mask on worlds of any shape: one engine executes a list of masked *)
(* steps on a world of W x H cells; a mask read past the end of the mask   *)
(* panics.                                                                 *)

\* apply_mask: (mx, my), the mask cell of world pixel (x, y)
MaskCoord(world_size, x, y) ==
    << (x * MASK_SIZE) \div world_size[1], (y * MASK_SIZE) \div world_size[1] >>

\* apply_mask: the mask indices read for world pixel (x, y), the first one
\* without a test
MaskReads(world_size, x, y) ==
    LET mx == MaskCoord(world_size, x, y)[1]
        my == MaskCoord(world_size, x, y)[2]
    IN {mx + my * MASK_SIZE}
       \cup (IF mx + 1 < MASK_SIZE THEN {mx + 1 + my * MASK_SIZE} ELSE {})
       \cup (IF mx + 1 < MASK_SIZE /\ my + 1 < MASK_SIZE
             THEN {mx + (my + 1) * MASK_SIZE, mx + 1 + (my + 1) * MASK_SIZE}
             ELSE {})

\* apply_mask panics: an index is past the end of the MASK_SIZE * MASK_SIZE
\* values of the mask
apply_mask_panics(world_size) ==
    \E x \in 0..(world_size[1] - 1), y \in 0..(world_size[2] - 1) :
      \E i \in MaskReads(world_size, x, y) : i >= MASK_SIZE * MASK_SIZE

\* the world shapes drawn, the export sizes with H # W among them
MaskWorldSizes == {<<w, h>> : w \in 1..4, h \in 1..4}

\* the masked steps drawn
MaskedSteps ==
    { MkStep(t[1], t[2], FALSE, m) :
        t \in {<<"Hills", HillsA>>, <<"Normalize", NormalizeB>>},
        m \in MaskNames }

MaskInit ==
    /\ WorkerAtRest
    /\ \E size \in MaskWorldSizes :
         /\ wgen = NewWorldGenerator(LiveWorld.seed, size)
         /\ fresh = NewWorldGenerator(LiveWorld.seed, size)
    /\ gsteps \in ListsUpTo(MaskedSteps, MaxSteps)
    /\ edits = 0 /\ clock = 0 /\ mode = "mask" /\ redo = 0 /\ before = <<>>

\* the engine executes the next step of the list; the thread panics when
\* apply_mask reads past the end of the mask
MaskExecute ==
    /\ mode = "mask" /\ pc = "idle"
    /\ redo < Len(gsteps)
    /\ IF apply_mask_panics(wgen.world_size)
       THEN pc' = "panicked" /\ UNCHANGED <<wgen, redo>>
       ELSE /\ wgen' = execute_step(wgen, redo, gsteps[redo + 1],
                                    MinProgressStep(gsteps)).wgen
            /\ redo' = redo + 1
            /\ pc' = pc
    /\ UNCHANGED <<steps, cur, prog, rx, tx, gsteps, outbox, running, edits,
                   ticket, hist, live, before, fresh, clock, mode>>

MaskSpec == MaskInit /\ [][MaskExecute]_vars

\* C24: mask sampling stays inside the mask grid.  For every world size
\* (W, H) and every world pixel (x, y), apply_mask samples the mask at the
\* cell of (x * 64 / W, y * 64 / H), every mask index it reads lies within
\* the 64 x 64 grid, and so the step does not panic.
C24_MaskSamplingInGrid ==
    mode = "mask" =>
      /\ pc # "panicked"
      /\ \A x \in 0..(wgen.world_size[1] - 1), y \in 0..(wgen.world_size[2] - 1) :
           /\ MaskCoord(wgen.world_size, x, y)
                = << (x * MASK_SIZE) \div wgen.world_size[1],
                     (y * MASK_SIZE) \div wgen.world_size[2] >>
           /\ \A i \in MaskReads(wgen.world_size, x, y) :
                i < MASK_SIZE * MASK_SIZE

\* the same for square worlds only
MaskSamplingInGridSquare ==
    (mode = "mask" /\ wgen.world_size[1] = wgen.world_size[2]) =>
      /\ pc # "panicked"
      /\ \A x \in 0..(wgen.world_size[1] - 1), y \in 0..(wgen.world_size[2] - 1) :
           \A i \in MaskReads(wgen.world_size, x, y) : i < MASK_SIZE * MASK_SIZE
----------------------------------------------------------------------------
(* generators/fbm.rs: the CPU generator (gl is None), its rows split into  *)
(* one chunk per job.  In these runs `cur` holds num_cpus::get().          *)

\* Fbm::new().set_seed(seed as u32).set_octaves(octaves).get([f0, f1]): a
\* value in [-1.0, 1.0] that depends on nothing but its arguments (the
\* seeds drawn are below 2^32, so `seed as u32` is the seed)
FbmNoise(seed, octaves, f0, f1) ==
    ((seed * 7 + AsUsize(octaves) * 3 + f0 * 31 + f1 * 17) % (2 * FP + 1)) - FP

\* the value added to the cell in column x of world row y
FbmValue(seed, size, conf, x, y) ==
    LET xcoef == FDiv(conf.mulx, 400 * FP)
        ycoef == FDiv(conf.muly, 400 * FP)
        f0 == FMul((x * 512 * FP) \div size[1] + conf.addx, xcoef)
        f1 == FMul((y * 512 * FP) \div size[2] + conf.addy, ycoef)
    IN conf.delta + FMul(FbmNoise(seed, conf.octaves, f0, f1), conf.scale)

\* size_per_job = size.1 / num_threads
SizePerJob(size, num_threads) == size[2] \div num_threads

\* hmap.chunks_mut(size_per_job * size.0) panics on a chunk size of 0
gen_fbm_panics(size, num_threads) ==
    SizePerJob(size, num_threads) * size[1] = 0

\* the number of chunks chunks_mut yields
NumChunks(size, num_threads) ==
    LET n == SizePerJob(size, num_threads) * size[1]
    IN (size[1] * size[2] + n - 1) \div n

\* the writes of the jobs: job i adds to chunk[y * size.0 + x], cell
\* i * chunk size + y * size.0 + x of the map, the value of world row
\* y + yoffset, for y < lasty
FbmWrites(size, num_threads) ==
    LET size_per_job == SizePerJob(size, num_threads)
    IN UNION { LET yoffset == i * size_per_job
                   lasty == Min(size_per_job, size[2] - yoffset)
               IN { [job |-> i,
                     cell |-> i * size_per_job * size[1] + y * size[1] + x,
                     x |-> x, row |-> y + yoffset] :
                      x \in 0..(size[1] - 1), y \in 0..(lasty - 1) } :
               i \in 0..(NumChunks(size, num_threads) - 1) }

RECURSIVE FbmSum(_, _, _, _)
FbmSum(seed, size, conf, writes) ==
    IF writes = {} THEN 0
    ELSE LET w == CHOOSE w \in writes : TRUE
         IN FbmValue(seed, size, conf, w.x, w.row)
            + FbmSum(seed, size, conf, writes \ {w})

\* gen_fbm(seed, size, hmap, conf, gl) with gl = None, on num_threads
\* processors, for sizes where it does not panic
gen_fbm(seed, size, h, conf, num_threads) ==
    LET writes == FbmWrites(size, num_threads)
    IN [c \in 1..Len(h) |->
          h[c] + FbmSum(seed, size, conf, {w \in writes : w.cell = c - 1})]

\* the world shapes and the processor counts drawn
FbmSizes == {<<w, h>> : w \in 1..3, h \in 1..5}

MaxThreads == 6

FbmConfs ==
    { [mulx |-> (22 * FP) \div 10, muly |-> (22 * FP) \div 10, addx |-> ax,
       addy |-> 0, octaves |-> 6 * FP, delta |-> d,
       scale |-> (205 * FP) \div 100] :
        ax \in {0, 100 * FP}, d \in {0, FP \div 4} }

FbmInit ==
    /\ steps = <<>> /\ pc = "idle" /\ prog = <<>>
    /\ rx = <<>> /\ tx = <<>> /\ outbox = <<>> /\ running = FALSE
    /\ ticket = 0 /\ hist = <<>> /\ live = FALSE
    /\ cur \in 1..MaxThreads
    /\ \E size \in FbmSizes :
         /\ wgen = NewWorldGenerator(LiveWorld.seed, size)
         /\ fresh = NewWorldGenerator(LiveWorld.seed, size)
    /\ \E conf \in FbmConfs :
         gsteps = << MkStep("Fbm", conf, FALSE, NoMask),
                     MkStep("Fbm", conf, FALSE, NoMask) >>
    /\ edits = 0 /\ clock = 0 /\ mode = "fbm" /\ redo = 0 /\ before = <<>>

\* execute_step on the next Fbm step: the entry is prepared and gen_fbm
\* adds to it, or panics
FbmExecute ==
    /\ mode = "fbm" /\ pc = "idle"
    /\ redo < Len(gsteps)
    /\ IF gen_fbm_panics(wgen.world_size, cur)
       THEN pc' = "panicked" /\ UNCHANGED <<wgen, redo>>
       ELSE /\ LET hmap1 == PrepareEntry(wgen, redo)
               IN wgen' = [wgen EXCEPT !.hmap =
                             [hmap1 EXCEPT ![redo + 1].h =
                                gen_fbm(wgen.seed, wgen.world_size, @,
                                        gsteps[redo + 1].conf, cur)]]
            /\ redo' = redo + 1
            /\ pc' = pc
    /\ UNCHANGED <<steps, cur, prog, rx, tx, gsteps, outbox, running, edits,
                   ticket, hist, live, before, fresh, clock, mode>>

FbmSpec == FbmInit /\ [][FbmExecute]_vars

\* the rows are split validly: every cell is written by exactly one job, with
\* the value of its own world row
FbmPartitionValid(size, num_threads) ==
    /\ ~gen_fbm_panics(size, num_threads)
    /\ \A c \in 0..(size[1] * size[2] - 1) :
         LET ws == {w \in FbmWrites(size, num_threads) : w.cell = c}
         IN /\ Cardinality(ws) = 1
            /\ \A w \in ws : w.x = c % size[1] /\ w.row = c \div size[1]

\* C25: Fbm partitioning does not change results.  For every world height
\* H >= 1 and every processor count T >= 1, T > H included, gen_fbm does not
\* panic, every cell is written by exactly one job, and the map is the one
\* a single job gives.
C25_FbmPartition ==
    mode = "fbm" =>
      /\ pc # "panicked"
      /\ FbmPartitionValid(wgen.world_size, cur)
      /\ \A k \in 1..Len(wgen.hmap) :
           wgen.hmap[k].h
             = gen_fbm(wgen.seed, wgen.world_size,
                       IF k = 1 THEN ZeroMap(wgen.world_size[1] * wgen.world_size[2])
                       ELSE wgen.hmap[k - 1].h,
                       gsteps[k].conf, 1)

\* the same when there are no more processors than rows
FbmPartitionEnoughRows ==
    (mode = "fbm" /\ cur <= wgen.world_size[2]) =>
      /\ pc # "panicked"
      /\ FbmPartitionValid(wgen.world_size, cur)
      /\ \A k \in 1..Len(wgen.hmap) :
           wgen.hmap[k].h
             = gen_fbm(wgen.seed, wgen.world_size,
                       IF k = 1 THEN ZeroMap(wgen.world_size[1] * wgen.world_size[2])
                       ELSE wgen.hmap[k - 1].h,
                       gsteps[k].conf, 1)
----------------------------------------------------------------------------
(* Hills on worlds of several sizes: one engine executes one Hills step    *)
(* from an empty cache.                                                    *)

\* the hills gen_hills draws, in order
RECURSIVE HillDraws(_, _, _, _)
HillDraws(i, rng, size, conf) ==
    IF i >= conf.nb_hill THEN <<>>
    ELSE LET d == HillDraw(rng, size, conf)
         IN <<d>> \o HillDraws(i + 1, d.rng, size, conf)

HillsSizes == {<<2, 2>>, <<4, 4>>, <<4, 2>>, <<8, 8>>}

HillsConfs ==
    { [nb_hill |-> n, base_radius |-> r, radius_var |-> v, height |-> FP] :
        n \in {1, 2}, r \in {2 * FP, 16 * FP, 200 * FP},
        v \in {0, (7 * FP) \div 10} }

HillsInit ==
    /\ WorkerAtRest
    /\ \E seed \in 0..(RngMod - 1), size \in HillsSizes :
         /\ wgen = NewWorldGenerator(seed, size)
         /\ fresh = NewWorldGenerator(seed, size)
    /\ \E conf \in HillsConfs :
         gsteps = << MkStep("Hills", conf, FALSE, NoMask) >>
    /\ edits = 0 /\ clock = 0 /\ mode = "hills" /\ redo = 0 /\ before = <<>>

HillsSpec == HillsInit /\ [][EngExecute]_vars

\* the cells the step changed lie at distance < radius of a hill centre
OnlyCellsInsideHillsChanged ==
    (mode = "hills" /\ redo = 1) =>
      LET size == wgen.world_size
          draws == HillDraws(0, SeedFromU64(wgen.seed), size, gsteps[1].conf)
      IN \A c \in 1..Len(wgen.hmap[1].h) :
           wgen.hmap[1].h[c] # 0 =>
             \E k \in 1..Len(draws) :
               LET dx == ((c - 1) % size[1]) * FP - draws[k].xh
                   dy == ((c - 1) \div size[1]) * FP - draws[k].yh
               IN FMul(dx, dx) + FMul(dy, dy)
                    < FMul(draws[k].radius, draws[k].radius)

\* C26: hills radius range.  Each hill gen_hills adds has a radius between
\* base_radius * (1 - radius_var) and base_radius * (1 + radius_var) world
\* pixels, whatever the world size, and only cells at distance < radius of
\* a hill centre are changed.
C26_HillsRadiusRange ==
    (mode = "hills" /\ redo = 1) =>
      LET conf == gsteps[1].conf
          draws == HillDraws(0, SeedFromU64(wgen.seed), wgen.world_size, conf)
      IN /\ \A k \in 1..Len(draws) :
              /\ FMul(conf.base_radius, FP - conf.radius_var) <= draws[k].radius
              /\ draws[k].radius <= FMul(conf.base_radius, FP + conf.radius_var)
         /\ OnlyCellsInsideHillsChanged

\* the radius range the code uses: base_radius scaled by size.0 / 200
HillsRadiusScaledRange ==
    (mode = "hills" /\ redo = 1) =>
      LET conf == gsteps[1].conf
          real_radius == (conf.base_radius * wgen.world_size[1]) \div 200
          draws == HillDraws(0, SeedFromU64(wgen.seed), wgen.world_size, conf)
      IN \A k \in 1..Len(draws) :
           /\ FMul(real_radius, FP - conf.radius_var) <= draws[k].radius
           /\ draws[k].radius <= FMul(real_radius, FP + conf.radius_var)
----------------------------------------------------------------------------
(* MudSlide on a grid drawn from a set of heights: the engine holds the    *)
(* grid at index 0 and executes a MudSlide step at index 1.                *)

\* the heights the grids are drawn from: under the band, on its lower edge
\* (water_level - 0.01), inside it, and above max_erosion_alt
MudValues == {0, (12 * FP) \div 100 - FP \div 100, FP \div 2, 950}

MudSizes == {<<2, 2>>, <<3, 2>>}

MudConfs ==
    { [iterations |-> it, max_erosion_alt |-> (9 * FP) \div 10,
       strength |-> s, water_level |-> (12 * FP) \div 100] :
        it \in {FP, 2 * FP}, s \in {(4 * FP) \div 10, FP} }

MudInit ==
    /\ WorkerAtRest
    /\ \E size \in MudSizes :
         /\ \E g \in [1..(size[1] * size[2]) -> MudValues] :
              wgen = [seed |-> 0, world_size |-> size,
                      hmap |-> << [h |-> g, disabled |-> FALSE] >>]
         /\ fresh = NewWorldGenerator(0, size)
    /\ \E conf \in MudConfs :
         gsteps = << MkStep("Normalize", NormalizeA, TRUE, NoMask),
                     MkStep("MudSlide", conf, FALSE, NoMask) >>
    /\ edits = 0 /\ clock = 0 /\ mode = "mudslide" /\ redo = 1 /\ before = <<>>

MudSpec == MudInit /\ [][EngExecute]_vars

\* the pass rule with each group's sum divided by the number of its lower
\* neighbours, a group without one contributing 0, on the cells strictly
\* between water_level - 0.01 and max_erosion_alt
PassRuleCell(size, hmap, conf, x, y) ==
    LET h == vec_get_safe(hmap, x + y * size[1])
        diag == LowerNeighbours(size, hmap, x, y, h, TRUE)
        adj == LowerNeighbours(size, hmap, x, y, h, FALSE)
        s_diag == SumDelta(diag, size, hmap, x, y, h, (4 * FP) \div 10)
        s_orth == SumDelta(adj, size, hmap, x, y, h, (16 * FP) \div 10)
        avg == (IF diag = {} THEN 0 ELSE FDiv(s_diag, Cardinality(diag) * FP))
               + (IF adj = {} THEN 0 ELSE FDiv(s_orth, Cardinality(adj) * FP))
        hcoef == FMul(h - conf.water_level, FDiv(FP, FP - conf.water_level))
    IN IF h > conf.water_level - FP \div 100 /\ h < conf.max_erosion_alt
       THEN h + FMul(FMul(avg, conf.strength),
                     FP - FMul(FMul(hcoef, hcoef), hcoef))
       ELSE h

\* C27: MudSlide pass rule.  In one pass exactly the cells with height
\* strictly between water_level - 0.01 and max_erosion_alt are modified,
\* each to h + strength * (S_diag / n_diag + S_orth / n_orth) * (1 - hcoef^3)
\* with n the number of lower neighbours of the group; every other cell is
\* copied, and all reads come from the grid before the pass.
C27_MudSlidePassRule ==
    (mode = "mudslide" /\ redo = 2 /\ gsteps[2].conf.iterations = FP) =>
      LET size == wgen.world_size
      IN \A c \in 1..Len(wgen.hmap[2].h) :
           wgen.hmap[2].h[c] =
             PassRuleCell(size, wgen.hmap[1].h, gsteps[2].conf,
                          (c - 1) % size[1], (c - 1) \div size[1])

\* the cells under water_level - 0.01 or at or above max_erosion_alt are
\* copied by a pass
MudSlideCopiesOutsideBand ==
    (mode = "mudslide" /\ redo = 2 /\ gsteps[2].conf.iterations = FP) =>
      \A c \in 1..Len(wgen.hmap[2].h) :
        LET h == wgen.hmap[1].h[c]
        IN (h < gsteps[2].conf.water_level - FP \div 100
              \/ h >= gsteps[2].conf.max_erosion_alt)
             => wgen.hmap[2].h[c] = h

\* the pass rule holds on the cells that have no lower neighbour
MudSlidePassRuleNoLowerNeighbour ==
    (mode = "mudslide" /\ redo = 2 /\ gsteps[2].conf.iterations = FP) =>
      LET size == wgen.world_size
      IN \A c \in 1..Len(wgen.hmap[2].h) :
           LET x == (c - 1) % size[1]
               y == (c - 1) \div size[1]
               h == wgen.hmap[1].h[c]
           IN (\A d \in {TRUE, FALSE} :
                 LowerNeighbours(size, wgen.hmap[1].h, x, y, h, d) = {})
                => wgen.hmap[2].h[c]
                     = PassRuleCell(size, wgen.hmap[1].h, gsteps[2].conf, x, y)
----------------------------------------------------------------------------
(* generators/water_erosion.rs: gen_water_erosion simulated drop by drop.  *)
(* In a water erosion run the engine holds the input grid at index 0 and   *)
(* the map being eroded at index 1; `cur` is the generator's locals (the   *)
(* drop, its cell, the loop counters, the random stream), `prog` the       *)
(* progress fractions reported, and pc is "drop" before a drop is created, *)
(* "path" inside its while loop and "done" after the last row.             *)

\* f32::round: half away from zero
RoundF(x) ==
    IF x >= 0 THEN ((x + FP \div 2) \div FP) * FP
    ELSE 0 - (((0 - x) + FP \div 2) \div FP) * FP

\* f32::round() as i32
RoundI32(x) ==
    IF x >= 0 THEN (x + FP \div 2) \div FP
    ELSE 0 - (((0 - x) + FP \div 2) \div FP)

\* f32::fract: the sign of x is kept
Fract(x) == IF x >= 0 THEN x % FP ELSE 0 - ((0 - x) % FP)

\* the integer square root, by bisection
RECURSIVE ISqrt(_, _, _)
ISqrt(n, lo, hi) ==
    IF hi - lo <= 1 THEN lo
    ELSE LET mid == (lo + hi) \div 2
         IN IF mid * mid <= n THEN ISqrt(n, mid, hi) ELSE ISqrt(n, lo, mid)

\* f32::sqrt
Sqrt(x) == ISqrt(x * FP, 0, 46340)

\* cos and sin of the 16 angles k * 2 * PI / 16 the model's stream draws
CosTable == <<1024, 946, 724, 392, 0, -392, -724, -946,
              -1024, -946, -724, -392, 0, 392, 724, 946>>

SinTable == <<0, 392, 724, 946, 1024, 946, 724, 392,
              0, -392, -724, -946, -1024, -946, -724, -392>>

\* normalize_dir(dx, dy, rng): the unit vector, a random direction for a
\* null one, and the stream afterwards
normalize_dir(dx, dy, rng) ==
    LET len == Sqrt(FMul(dx, dx) + FMul(dy, dy))
    IN IF len < 1
       THEN [d |-> <<CosTable[rng + 1], SinTable[rng + 1]>>, rng |-> RngNext(rng)]
       ELSE [d |-> <<FDiv(dx, len), FDiv(dy, len)>>, rng |-> rng]

\* Drop::grid_offset(grid_width)
grid_offset(pos, grid_width) ==
    AsUsize(RoundF(pos[1])) + AsUsize(RoundF(pos[2])) * grid_width

\* drop_count = ((size.1 * 2) as f32 * conf.drop_amount) as usize
DropCount(size, conf) == AsUsize(size[2] * 2 * conf.drop_amount)

\* the sum of radius - dist over a set of offsets (x, y)
RECURSIVE WeightSum(_, _)
WeightSum(S, radius) ==
    IF S = {} THEN 0
    ELSE LET p == CHOOSE q \in S : TRUE
         IN (radius - Sqrt((p[1] * p[1] + p[2] * p[2]) * FP))
              + WeightSum(S \ {p}, radius)

\* the erosion weight of the radius
ErosionWeight(conf) ==
    LET r == RoundI32(conf.radius)
    IN WeightSum({p \in ((0 - r)..(r - 1)) \X ((0 - r)..(r - 1)) :
                    Sqrt((p[1] * p[1] + p[2] * p[2]) * FP) < conf.radius},
                 conf.radius)

\* the erosion write: amount * (radius - dist) / erosion_weight is taken
\* from every cell of the map at distance < radius of (old_x, old_y)
Erode(size, hmap, conf, old_x, old_y, amount) ==
    [c \in 1..Len(hmap) |->
       LET x == (c - 1) % size[1]
           y == (c - 1) \div size[1]
           dx == old_x - x * FP
           dy == old_y - y * FP
           dist == Sqrt(FMul(dx, dx) + FMul(dy, dy))
       IN IF /\ y >= RoundI32(old_y - conf.radius)
             /\ y < RoundI32(old_y + conf.radius)
             /\ x >= RoundI32(old_x - conf.radius)
             /\ x < RoundI32(old_x + conf.radius)
             /\ dist < conf.radius
          THEN hmap[c] - FDiv(FMul(amount, conf.radius - dist),
                              ErosionWeight(conf))
          ELSE hmap[c]]

\* the weights of the four cells around the drop's position
CellWeights(pos) ==
    << FMul(FP - Fract(pos[1]), FP - Fract(pos[2])),
       FMul(Fract(pos[1]), FP - Fract(pos[2])),
       FMul(FP - Fract(pos[1]), Fract(pos[2])),
       FMul(Fract(pos[1]), Fract(pos[2])) >>

\* the deposit of sediment on the four cells around the old position
Deposit(size, hmap, old_off, deposit, w) ==
    [hmap EXCEPT ![old_off + 1] = @ + FMul(deposit, w[1]),
                 ![old_off + 2] = @ + FMul(deposit, w[2]),
                 ![old_off + size[1] + 1] = @ + FMul(deposit, w[3]),
                 ![old_off + size[1] + 2] = @ + FMul(deposit, w[4])]

\* the slope (gx, gy) interpolated at the drop's position
Slope(hmap, off, size, pos) ==
    << FMul(hmap[off + 1] - hmap[off + 2], FP - Fract(pos[2]))
         + FMul(hmap[off + size[1] + 1] - hmap[off + size[1] + 2], Fract(pos[2])),
       FMul(hmap[off + 1] - hmap[off + size[1] + 1], FP - Fract(pos[1]))
         + FMul(hmap[off + 2] - hmap[off + size[1] + 2], Fract(pos[1])) >>

\* the drop's new direction: the slope's, interpolated with the old
\* direction to account for inertia
DropDir(st, hmap, size, conf) ==
    LET g == Slope(hmap, st.off, size, st.drop.pos)
        n1 == normalize_dir(g[1], g[2], st.rng)
    IN normalize_dir(FMul(st.drop.dir[1] - n1.d[1], conf.inertia) + n1.d[1],
                     FMul(st.drop.dir[2] - n1.d[2], conf.inertia) + n1.d[2],
                     n1.rng)

\* the height interpolated at the drop's new position
HeightAt(hmap, size, pos) ==
    LET off == grid_offset(pos, size[1])
        u == Fract(pos[1])
        v == Fract(pos[2])
    IN FMul(FMul(hmap[off + 1], FP - u) + FMul(hmap[off + 2], u), FP - v)
         + FMul(FMul(hmap[off + size[1] + 1], FP - u)
                  + FMul(hmap[off + size[1] + 2], u), v)

\* the end of an iteration that does not leave the loop
DropAdvance(st, drop, rng, off, hdif, conf, hmap) ==
    [st |-> [st EXCEPT
               !.drop = [drop EXCEPT
                           !.speed = Sqrt(FMul(drop.speed, drop.speed)
                                            + (IF hdif < 0 THEN 0 - hdif ELSE hdif)),
                           !.water = FMul(@, FP - conf.evaporation)],
               !.rng = rng, !.off = off, !.count = @ + 1],
     h |-> hmap, brk |-> FALSE]

\* going uphill: sediment is deposited at the old position
DropUphill(st, moved, rng, hmap, size, conf, hdif) ==
    LET deposit == Min(st.drop.sediment, hdif)
        drop == [moved EXCEPT !.sediment = @ - deposit, !.speed = 0]
        hmap2 == Deposit(size, hmap, st.off, deposit, CellWeights(st.drop.pos))
        off == grid_offset(moved.pos, size[1])
    IN IF drop.sediment <= 0
       THEN \* no more sediment
            [st |-> [st EXCEPT !.drop = drop, !.rng = rng, !.off = off],
             h |-> hmap2, brk |-> TRUE]
       ELSE DropAdvance(st, drop, rng, off, hdif, conf, hmap2)

\* going downhill: the drop deposits what is above its capacity, or erodes
DropDownhill(st, moved, rng, hmap, size, conf, hdif) ==
    LET capacity == FMul(FMul(FMul(Max(conf.min_slope, 0 - hdif),
                                   st.drop.water), conf.capacity),
                         st.drop.speed)
        deposit == FMul(st.drop.sediment - capacity, conf.deposition)
        amount == Min(FMul(capacity - st.drop.sediment, conf.erosion_strength),
                      0 - hdif)
        off == grid_offset(moved.pos, size[1])
    IN IF st.drop.sediment > capacity
       THEN DropAdvance(st, [moved EXCEPT !.capacity = capacity,
                                          !.sediment = @ - deposit],
                        rng, off, hdif, conf,
                        Deposit(size, hmap, st.off, deposit,
                                CellWeights(st.drop.pos)))
       ELSE DropAdvance(st, [moved EXCEPT !.capacity = capacity,
                                          !.sediment = @ + amount],
                        rng, off, hdif, conf,
                        Erode(size, hmap, conf, st.drop.pos[1],
                              st.drop.pos[2], amount))

\* one iteration of the while loop of a drop: the locals and the map
\* afterwards, and whether the loop is left
DropStep(st, hmap, size, conf) ==
    LET n == DropDir(st, hmap, size, conf)
        moved == [st.drop EXCEPT
                    !.dir = n.d,
                    !.pos = <<st.drop.pos[1] + n.d[1], st.drop.pos[2] + n.d[2]>>]
    IN IF \/ AsUsize(RoundF(moved.pos[1])) >= size[1] - 1
          \/ AsUsize(RoundF(moved.pos[2])) >= size[2] - 1
       THEN \* out of the map
            [st |-> [st EXCEPT !.drop = moved, !.rng = n.rng],
             h |-> hmap, brk |-> TRUE]
       ELSE IF HeightAt(hmap, size, moved.pos) - hmap[st.off + 1] >= 0
       THEN DropUphill(st, moved, n.rng, hmap, size, conf,
                       HeightAt(hmap, size, moved.pos) - hmap[st.off + 1])
       ELSE DropDownhill(st, moved, n.rng, hmap, size, conf,
                         HeightAt(hmap, size, moved.pos) - hmap[st.off + 1])

MAX_PATH_LENGTH == 40

\* the grids: a height per column
WaterGrids(size) ==
    {[c \in 1..(size[1] * size[2]) |-> col[((c - 1) % size[1]) + 1]] :
        col \in [1..size[1] -> {0, FP \div 2, FP}]}

\* the engine seeds of the water erosion runs
WaterSeeds == {0, 1}

WaterSizes == {<<4, 4>>, <<3, 4>>}

WaterConfs ==
    { [drop_amount |-> da, erosion_strength |-> FP \div 10,
       evaporation |-> (5 * FP) \div 100, capacity |-> 8 * FP,
       min_slope |-> (5 * FP) \div 100, deposition |-> FP \div 10,
       inertia |-> (4 * FP) \div 10, radius |-> r] :
        da \in {FP \div 8, FP \div 4}, r \in {2 * FP} }

WaterInit ==
    /\ steps = <<>> /\ rx = <<>> /\ tx = <<>> /\ outbox = <<>>
    /\ running = FALSE /\ ticket = 0 /\ hist = <<>> /\ live = FALSE
    /\ \E seed \in WaterSeeds, size \in WaterSizes :
         /\ \E g \in WaterGrids(size) :
              wgen = [seed |-> seed, world_size |-> size,
                      hmap |-> << [h |-> g, disabled |-> FALSE],
                                  [h |-> g, disabled |-> FALSE] >>]
         /\ fresh = NewWorldGenerator(seed, size)
         /\ cur = [y |-> 0, i |-> 0, progress |-> 0, rng |-> SeedFromU64(seed)]
    /\ \E conf \in WaterConfs :
         gsteps = << MkStep("Normalize", NormalizeA, TRUE, NoMask),
                     MkStep("WaterErosion", conf, FALSE, NoMask) >>
    /\ pc = "drop" /\ prog = <<>>
    /\ edits = 0 /\ clock = 0 /\ mode = "water" /\ redo = 1 /\ before = <<>>

\* the next drop of the row is created
WaterNewDrop ==
    /\ mode = "water" /\ pc = "drop"
    /\ cur.y < DropCount(wgen.world_size, gsteps[2].conf)
    /\ cur.i < wgen.world_size[1]
    /\ LET size == wgen.world_size
           r1 == RngNext(cur.rng)
           pos == <<RandomRange(cur.rng, 0, size[1] - 1) * FP,
                    RandomRange(r1, 0, size[2] - 1) * FP>>
       IN cur' = [y |-> cur.y, i |-> cur.i, progress |-> cur.progress,
                  rng |-> RngNext(r1),
                  drop |-> [pos |-> pos, dir |-> <<0, 0>>, sediment |-> 0,
                            water |-> FP, capacity |-> gsteps[2].conf.capacity,
                            speed |-> 0],
                  off |-> grid_offset(pos, size[1]),
                  count |-> 0]
    /\ pc' = "path"
    /\ UNCHANGED <<wgen, steps, prog, rx, tx, gsteps, outbox, running, edits,
                   ticket, hist, live, before, fresh, clock, mode, redo>>

\* one iteration of the drop's while loop, or the end of the loop after
\* MAX_PATH_LENGTH iterations
WaterDropStep ==
    /\ mode = "water" /\ pc = "path"
    /\ IF cur.count >= MAX_PATH_LENGTH
       THEN /\ cur' = [y |-> cur.y, i |-> cur.i + 1,
                       progress |-> cur.progress, rng |-> cur.rng]
            /\ pc' = "drop"
            /\ wgen' = wgen
       ELSE LET s == DropStep(cur, wgen.hmap[2].h, wgen.world_size,
                              gsteps[2].conf)
            IN /\ wgen' = [wgen EXCEPT !.hmap[2].h = s.h]
               /\ IF s.brk
                  THEN /\ cur' = [y |-> cur.y, i |-> cur.i + 1,
                                  progress |-> cur.progress, rng |-> s.st.rng]
                       /\ pc' = "drop"
                  ELSE /\ cur' = s.st
                       /\ pc' = "path"
    /\ UNCHANGED <<steps, prog, rx, tx, gsteps, outbox, running, edits,
                   ticket, hist, live, before, fresh, clock, mode, redo>>

\* the end of a row of size.0 drops: the progress fraction is reported when
\* it is min_progress_step above the last one reported
WaterRowEnd ==
    /\ mode = "water" /\ pc = "drop"
    /\ cur.y < DropCount(wgen.world_size, gsteps[2].conf)
    /\ cur.i >= wgen.world_size[1]
    /\ LET new_progress == FDiv(cur.y * FP,
                                DropCount(wgen.world_size, gsteps[2].conf) * FP)
           report == new_progress - cur.progress >= MinProgressStep(gsteps)
       IN /\ cur' = [cur EXCEPT !.y = @ + 1, !.i = 0,
                                !.progress = IF report THEN new_progress ELSE @]
          /\ prog' = IF report THEN Append(prog, new_progress) ELSE prog
    /\ UNCHANGED <<wgen, steps, pc, rx, tx, gsteps, outbox, running, edits,
                   ticket, hist, live, before, fresh, clock, mode, redo>>

\* gen_water_erosion returns
WaterDone ==
    /\ mode = "water" /\ pc = "drop"
    /\ cur.y >= DropCount(wgen.world_size, gsteps[2].conf)
    /\ pc' = "done"
    /\ redo' = 2
    /\ UNCHANGED <<wgen, steps, cur, prog, rx, tx, gsteps, outbox, running,
                   edits, ticket, hist, live, before, fresh, clock, mode>>

WaterNext == WaterNewDrop \/ WaterDropStep \/ WaterRowEnd \/ WaterDone

WaterSpec == WaterInit /\ [][WaterNext]_vars

\* C28: water erosion is floored at 0.  Every erosion write leaves the
\* eroded cell >= 0: a grid whose cells are all >= 0 before the step has
\* all cells >= 0 at every point of the step.
C28_ErosionFlooredAtZero ==
    (mode = "water" /\ \A c \in 1..Len(wgen.hmap[1].h) : wgen.hmap[1].h[c] >= 0)
      => \A c \in 1..Len(wgen.hmap[2].h) : wgen.hmap[2].h[c] >= 0
----------------------------------------------------------------------------
(* LandMass on the whole range of its configuration: land proportion and   *)
(* water level from 0.0 to 1.0 included.                                   *)

LandEdgeConfs ==
    { [land_proportion |-> lp, water_level |-> wl, plain_factor |-> FP,
       shore_height |-> (5 * FP) \div 100] :
        lp \in {0, FP \div 4, FP}, wl \in {0, FP \div 2, FP} }

LandEdgeInit ==
    /\ WorkerAtRest
    /\ \E g \in [1..(LiveWorld.size * LiveWorld.size) -> LandValues] :
         wgen = [seed |-> LiveWorld.seed,
                 world_size |-> <<LiveWorld.size, LiveWorld.size>>,
                 hmap |-> << [h |-> g, disabled |-> FALSE] >>]
    /\ fresh = NewWorldGenerator(LiveWorld.seed, <<LiveWorld.size, LiveWorld.size>>)
    /\ \E conf \in LandEdgeConfs :
         gsteps = << MkStep("Normalize", NormalizeA, TRUE, NoMask),
                     MkStep("LandMass", conf, FALSE, NoMask) >>
    /\ edits = 0 /\ clock = 0 /\ mode = "landedge" /\ redo = 1 /\ before = <<>>

LandEdgeSpec == LandEdgeInit /\ [][EngExecute]_vars

\* every index into height_count is within 0..255
HistogramIndexInRange ==
    mode = "landedge" =>
      \A c \in 1..Len(wgen.hmap[1].h) :
        Bucket(normalize(wgen.hmap[1].h, 0, FP)[c]) \in 0..255

\* C29: LandMass never divides by zero in a value it writes.  For every
\* land proportion in [0,1], every configured water level in [0,1] and
\* every input grid, each coefficient applied to a cell has a non-zero
\* denominator, and every histogram index is within 0..255.
C29_LandMassNoZeroDivision ==
    /\ HistogramIndexInRange
    /\ (mode = "landedge" /\ redo = 2) =>
         \A c \in 1..Len(wgen.hmap[2].h) : wgen.hmap[2].h[c] # NaN

\* the same for a land proportion and a water level below 1.0
LandMassNoZeroDivisionBelowOne ==
    (mode = "landedge" /\ redo = 2
       /\ gsteps[2].conf.land_proportion < FP
       /\ gsteps[2].conf.water_level < FP) =>
      \A c \in 1..Len(wgen.hmap[2].h) : wgen.hmap[2].h[c] # NaN
----------------------------------------------------------------------------
(* The progress fractions of one step: one engine executes one step of a   *)
(* generator that reports progress, on square and non-square worlds.       *)

ProgressSizes == {<<2, 2>>, <<4, 4>>, <<3, 2>>, <<2, 3>>, <<4, 2>>, <<2, 5>>}

\* the steps that report progress (water erosion is simulated apart)
ProgressSteps ==
    {MkStep("Hills", [nb_hill |-> n, base_radius |-> 200 * FP,
                      radius_var |-> 0, height |-> FP], FALSE, NoMask) :
        n \in {1, 3}}
    \cup {MkStep("MidPoint", conf, FALSE, NoMask) : conf \in MidPointConfs}
    \cup {MkStep("LandMass", conf, FALSE, NoMask) : conf \in LandConfs}
    \cup {MkStep("Island", [coast_range |-> r], FALSE, NoMask) :
            r \in {25 * FP, 50 * FP}}

ProgressInit ==
    /\ WorkerAtRest
    /\ \E seed \in 0..(RngMod - 1), size \in ProgressSizes :
         /\ wgen = NewWorldGenerator(seed, size)
         /\ fresh = NewWorldGenerator(seed, size)
    /\ \E step \in ProgressSteps : gsteps = <<step>>
    /\ edits = 0 /\ clock = 0 /\ mode = "progress" /\ redo = 0 /\ before = <<>>

ProgressSpec == ProgressInit /\ [][EngExecute]_vars

\* the progress fractions the executed step sent
StepSent ==
    Generate(wgen.seed, wgen.world_size,
             ZeroMap(wgen.world_size[1] * wgen.world_size[2]),
             gsteps[1], MinProgressStep(gsteps)).sent

\* the fractions are in [0, 1) and each is at least `step` above the one
\* before it
WellFormed(sent, step) ==
    /\ \A k \in 1..Len(sent) : sent[k] >= 0 /\ sent[k] < FP
    /\ \A k \in 2..Len(sent) : sent[k] - sent[k - 1] >= step

\* C30: progress fractions are well-formed.  Every fraction reported during
\* one step lies in [0,1), and successive fractions are strictly increasing
\* by at least the minimum progress step, for every generator that reports
\* progress and every world size, non-square ones included.
C30_ProgressWellFormed ==
    (mode = "progress" /\ redo = 1) =>
      /\ MinProgressStep(gsteps) > 0
      /\ WellFormed(StepSent, MinProgressStep(gsteps))

\* the same for the generators other than Island
ProgressWellFormedButIsland ==
    (mode = "progress" /\ redo = 1 /\ gsteps[1].typ # "Island") =>
      WellFormed(StepSent, MinProgressStep(gsteps))

\* the same for Island on the worlds that are at least as wide as high
ProgressWellFormedIslandWide ==
    (mode = "progress" /\ redo = 1 /\ gsteps[1].typ = "Island"
       /\ wgen.world_size[1] >= wgen.world_size[2]) =>
      WellFormed(StepSent, MinProgressStep(gsteps))

\* the same for the fractions gen_water_erosion has reported so far
WaterProgressWellFormed ==
    mode = "water" => WellFormed(prog, MinProgressStep(gsteps))

====
